---------------------------- MODULE Spec2Model ----------------------------
(***************************************************************************)
(* Model of the room/entrance label engine of pythonbygninger:             *)
(*   building_config.py  FontSizeRange, RoomPattern, BuildingConfig,       *)
(*                       ConfigurationManager                              *)
(*   pdf_parser.py       PDFParser (classifier, native and OCR extraction) *)
(*                       BuildingManager (load, search_room,               *)
(*                       get_nearest_entrance)                             *)
(*                                                                         *)
(* Representation.  A Python str is a sequence of one-character strings.   *)
(* A font size (a float in points) is an integer number of hundredths of   *)
(* a point, so 3.2 is 320 and 49.4 is 4940.  Optional[T] is a sequence of  *)
(* length 0 (None) or 1.  A dict is the sequence of its (key, value)       *)
(* entries in insertion order.  A regular expression is its syntax tree,   *)
(* matched the way re.match does (anchored at the start).                  *)
(***************************************************************************)
EXTENDS Integers, Sequences, FiniteSets, TLC

(***************************************************************************)
(* Bounds of the model.                                                    *)
(***************************************************************************)
\* longest text over Sigma that is enumerated exhaustively
MaxLen == 3
\* most spans of a page with native text
MaxSpans == 2
\* most results the recognizer returns for one render of a page
MaxOcr == 1
\* most files of a building directory
MaxFiles == 2
\* the most documents followed that stay open without a parser of the floor
\* map holding them
MaxUnreleased == 2

(***************************************************************************)
(* Characters and str methods.                                             *)
(***************************************************************************)
Uppers == <<"A","B","C","D","E","F","G","H","I","J","K","L","M",
            "N","O","P","Q","R","S","T","U","V","W","X","Y","Z">>
Lowers == <<"a","b","c","d","e","f","g","h","i","j","k","l","m",
            "n","o","p","q","r","s","t","u","v","w","x","y","z">>
Digits == <<"0","1","2","3","4","5","6","7","8","9">>
\* the punctuation the patterns and the texts use, with its code point
Puncts == <<" ", "(", ")", "-", ".", "/", ":", "_">>
PunctOrd == <<32, 40, 41, 45, 46, 47, 58, 95>>

Range(s) == {s[k] : k \in DOMAIN s}
Chars == Range(Uppers) \cup Range(Lowers) \cup Range(Digits) \cup Range(Puncts)

\* ord(c)
Ord == [c \in Chars |->
          IF c \in Range(Uppers) THEN 64 + (CHOOSE k \in DOMAIN Uppers : Uppers[k] = c)
          ELSE IF c \in Range(Lowers) THEN 96 + (CHOOSE k \in DOMAIN Lowers : Lowers[k] = c)
          ELSE IF c \in Range(Digits) THEN 47 + (CHOOSE k \in DOMAIN Digits : Digits[k] = c)
          ELSE PunctOrd[CHOOSE k \in DOMAIN Puncts : Puncts[k] = c]]

\* str.upper() and str.lower() on one character
UpperChar == [c \in Chars |->
                IF c \in Range(Lowers) THEN Uppers[CHOOSE k \in DOMAIN Lowers : Lowers[k] = c]
                ELSE c]
LowerChar == [c \in Chars |->
                IF c \in Range(Uppers) THEN Lowers[CHOOSE k \in DOMAIN Uppers : Uppers[k] = c]
                ELSE c]

upper(text) == [i \in DOMAIN text |-> UpperChar[text[i]]]
lower(text) == [i \in DOMAIN text |-> LowerChar[text[i]]]

IsSpace(c) == c = " "

\* str.strip(): drop leading and trailing whitespace
RECURSIVE lstrip(_)
lstrip(text) ==
    IF text # <<>> /\ IsSpace(Head(text)) THEN lstrip(Tail(text)) ELSE text
RECURSIVE rstrip(_)
rstrip(text) ==
    IF text # <<>> /\ IsSpace(text[Len(text)])
    THEN rstrip(SubSeq(text, 1, Len(text) - 1))
    ELSE text
strip(text) == rstrip(lstrip(text))

\* Python's  needle in hay  for two str
Contains(needle, hay) ==
    \E i \in 0 .. (Len(hay) - Len(needle)) :
        SubSeq(hay, i + 1, i + Len(needle)) = needle

\* Python's  a < b  for two str: lexicographic by code point
RECURSIVE StrLess(_, _)
StrLess(a, b) ==
    IF b = <<>> THEN FALSE
    ELSE IF a = <<>> THEN TRUE
    ELSE IF Ord[Head(a)] # Ord[Head(b)] THEN Ord[Head(a)] < Ord[Head(b)]
    ELSE StrLess(Tail(a), Tail(b))

(***************************************************************************)
(* Regular expressions: syntax trees and re.match.                         *)
(***************************************************************************)
\* a character range a-b inside [...]
CharRange(a, b) == {c \in Chars : Ord[a] <= Ord[c] /\ Ord[c] <= Ord[b]}

ClsAZ == CharRange("A", "Z")
ClsDigit == CharRange("0", "9")
ClsAZ09 == ClsAZ \cup ClsDigit
\* [-._]
ClsSep == {"-", ".", "_"}
\* [A-Z0-9.-_] : inside the brackets .-_ is the range from "." to "_"
ClsBroad == ClsAZ \cup ClsDigit \cup CharRange(".", "_")
\* [\d.]
ClsNum == ClsDigit \cup {"."}

Bol == [t |-> "bol"]
Eol == [t |-> "eol"]
Cls(S) == [t |-> "set", s |-> S]
Lit(c) == [t |-> "set", s |-> {c}]
Cat(ks) == [t |-> "cat", kids |-> ks]
Alt(ks) == [t |-> "alt", kids |-> ks]
\* kid{lo,hi}; hi = -1 is unbounded (* and +)
Rep(k, l, h) == [t |-> "rep", kid |-> k, lo |-> l, hi |-> h]
\* what stands for a pattern string re.compile rejects
Bad == [t |-> "error"]
\* a pattern whose repeat count is MAXREPEAT or more: compiling it raises
\* OverflowError
TooLarge == [t |-> "overflow"]
\* a literal word
Word(w) == Cat([i \in DOMAIN w |-> Lit(w[i])])

\* one character against a class, under re.IGNORECASE or not
InClass(c, S, ic) ==
    \/ c \in S
    \/ ic /\ (UpperChar[c] \in S \/ LowerChar[c] \in S)

\* the positions at which a match of r that starts at position i can end
RECURSIVE Ends(_, _, _, _)
RECURSIVE CatEnds(_, _, _, _, _)
RECURSIVE RepEnds(_, _, _, _, _)
Ends(r, text, ic, i) ==
    CASE r.t = "bol" -> IF i = 1 THEN {i} ELSE {}
      [] r.t = "eol" -> IF i = Len(text) + 1 THEN {i} ELSE {}
      [] r.t = "set" -> IF i <= Len(text) /\ InClass(text[i], r.s, ic)
                        THEN {i + 1} ELSE {}
      [] r.t = "cat" -> CatEnds(r.kids, 1, text, ic, {i})
      [] r.t = "alt" -> UNION {Ends(r.kids[k], text, ic, i) : k \in DOMAIN r.kids}
      [] r.t = "rep" -> RepEnds(r, 0, text, ic, {i})
      [] OTHER -> {}  \* "error", "overflow": the pattern did not compile,
                      \* nothing matches
CatEnds(kids, k, text, ic, from) ==
    IF k > Len(kids) \/ from = {} THEN from
    ELSE CatEnds(kids, k + 1, text, ic,
                 UNION {Ends(kids[k], text, ic, p) : p \in from})
\* from: the positions reached after exactly n repetitions
RepEnds(r, n, text, ic, from) ==
    LET here == IF n >= r.lo THEN from ELSE {}
        next == UNION {Ends(r.kid, text, ic, p) : p \in from}
    IN  IF n = r.hi \/ next = {} \/ n > r.lo + Len(text)
        THEN here
        ELSE here \cup RepEnds(r, n + 1, text, ic, next)

\* bool(re.match(pattern, text, flags)): a match anchored at the start
re_match(r, text, ic) == Ends(r, text, ic, 1) # {}


(***************************************************************************)
(* building_config.py: FontSizeRange, RoomPattern, BuildingConfig.         *)
(***************************************************************************)
FontSizeRange(lo, hi) == [min_size |-> lo, max_size |-> hi]
RoomPattern(p, d, e) == [pattern |-> p, description |-> d, enabled |-> e]

\* FontSizeRange.contains
\* Variant of contains with the upper end of the band left out.
contains_open_above(r, size) == r.min_size <= size /\ size < r.max_size

contains(r, size) == r.min_size <= size /\ size <= r.max_size

\* the room patterns of create_default_config, in order
PatSeparated == Cat(<<Bol, Rep(Cls(ClsAZ09), 1, 4), Cls(ClsSep), Rep(Cls(ClsAZ09), 1, 4)>>)
PatTwoByTwo == Cat(<<Bol, Rep(Cls(ClsDigit), 2, 2), Lit("_"), Rep(Cls(ClsDigit), 2, 2), Eol>>)
PatLetterDot == Cat(<<Bol, Cls(ClsAZ), Lit("."), Cls(ClsDigit), Lit("."),
                      Rep(Cls(ClsDigit), 2, 2), Eol>>)
PatPrefixed == Cat(<<Bol, Word(<<"P","H","-","D">>), Rep(Cls(ClsDigit), 1, -1),
                     Rep(Lit("."), 0, 1), Rep(Cls(ClsDigit), 0, -1),
                     Rep(Lit("_"), 0, 1), Rep(Cls(ClsDigit), 0, -1), Eol>>)
PatLetterDigits == Cat(<<Bol, Rep(Cls(ClsAZ), 1, 2), Rep(Cls(ClsDigit), 2, 4), Eol>>)
PatDigitsLetter == Cat(<<Bol, Rep(Cls(ClsDigit), 2, 4), Rep(Cls(ClsAZ), 0, 1), Eol>>)
PatShortCode == Cat(<<Bol, Rep(Cls(ClsAZ09), 2, 8), Eol>>)
PatBroad == Cat(<<Bol, Rep(Cls(ClsBroad), 2, 10), Eol>>)

\* \d+\.\d+
ReDecimal == Cat(<<Rep(Cls(ClsDigit), 1, -1), Lit("."), Rep(Cls(ClsDigit), 1, -1)>>)
\* the exclude patterns of create_default_config, in order
ExArea == Cat(<<Bol, ReDecimal, Lit("m"), Lit("2"), Eol>>)
ExMetadata == Cat(<<Bol,
                    Alt(<<Word(<<"A","r","e","a">>), Word(<<"T","y","p","e">>),
                          Cat(<<Word(<<"R","o","o","m"," ">>), ReDecimal, Lit("m"), Lit("2")>>)>>),
                    Lit(":")>>)
ExDecimal == Cat(<<Bol, ReDecimal, Eol>>)
ExTechnical == Cat(<<Bol,
                     Alt(<<Word(<<"w","i","d","t","h">>), Word(<<"h","e","i","g","h","t">>),
                           Word(<<"s","c","a","l","e">>),
                           Word(<<"r","o","t","a","t","i","o","n">>),
                           Word(<<"m","e","t","a","d","a","t","a">>),
                           Word(<<"p","r","o","p","e","r","t","i","e","s">>)>>),
                     Eol>>)
ExNumeric == Cat(<<Bol, Rep(Cls(ClsNum), 1, -1), Eol>>)

\* re.compile(pattern): the syntax tree of a pattern string; a string that is
\* no regular expression ("(" and "[" below) raises re.error
RepeatTooLarge == "a{99999999999}"
re_compile(pattern) ==
    CASE pattern = RepeatTooLarge -> TooLarge
      [] pattern = "^[A-Z0-9]{1,4}[-._][A-Z0-9]{1,4}" -> PatSeparated
      [] pattern = "^\\d{2}_\\d{2}$" -> PatTwoByTwo
      [] pattern = "^[A-Z]\\.\\d\\.\\d{2}$" -> PatLetterDot
      [] pattern = "^PH-D\\d+\\.?\\d*_?\\d*$" -> PatPrefixed
      [] pattern = "^[A-Z]{1,2}\\d{2,4}$" -> PatLetterDigits
      [] pattern = "^\\d{2,4}[A-Z]?$" -> PatDigitsLetter
      [] pattern = "^[A-Z0-9]{2,8}$" -> PatShortCode
      [] pattern = "^[A-Z0-9.-_]{2,10}$" -> PatBroad
      [] pattern = "^\\d+\\.\\d+m2$" -> ExArea
      [] pattern = "^(Area|Type|Room \\d+\\.\\d+m2):" -> ExMetadata
      [] pattern = "^\\d+\\.\\d+$" -> ExDecimal
      [] pattern = "^(width|height|scale|rotation|metadata|properties)$" -> ExTechnical
      [] pattern = "^[\\d.]+$" -> ExNumeric
      [] OTHER -> Bad

\* RoomPattern.matches: disabled never matches, re.error is swallowed, and
\* the flag is always re.IGNORECASE.  The value is what the call returns
\* when it returns.
matches(p, text) ==
    IF ~p.enabled THEN FALSE
    ELSE re_match(re_compile(p.pattern), text, TRUE)
\* RoomPattern.matches raises: re.match raised OverflowError, which
\* except re.error  does not take
matches_raises(p, text) == p.enabled /\ p.pattern = RepeatTooLarge

KwIndgang == <<"i","n","d","g","a","n","g">>
KwEntrance == <<"e","n","t","r","a","n","c","e">>
KwEntry == <<"e","n","t","r","y">>

\* ConfigurationManager.create_default_config
create_default_config(building_name) ==
    [building_name |-> building_name,
     font_size_ranges |-> <<FontSizeRange(320, 360), FontSizeRange(4900, 4940)>>,
     room_patterns |-> <<
        RoomPattern("^[A-Z0-9]{1,4}[-._][A-Z0-9]{1,4}", "Format som PH-D1, A-01", TRUE),
        RoomPattern("^\\d{2}_\\d{2}$", "Format som 01_02", TRUE),
        RoomPattern("^[A-Z]\\.\\d\\.\\d{2}$", "Format som A.1.01", TRUE),
        RoomPattern("^PH-D\\d+\\.?\\d*_?\\d*$", "Format som PH-D1.11_01", TRUE),
        RoomPattern("^[A-Z]{1,2}\\d{2,4}$", "Format som A101, AB123", TRUE),
        RoomPattern("^\\d{2,4}[A-Z]?$", "Format som 101, 202A", TRUE),
        RoomPattern("^[A-Z0-9]{2,8}$", "Korte alfanumeriske koder", TRUE),
        RoomPattern("^[A-Z0-9.-_]{2,10}$", "Generelle alfanumeriske kombinationer", TRUE)>>,
     entrance_keywords |-> <<KwIndgang, KwEntrance, KwEntry>>,
     exclude_patterns |-> <<
        RoomPattern("^\\d+\\.\\d+m2$", "Arealmaal", TRUE),
        RoomPattern("^(Area|Type|Room \\d+\\.\\d+m2):", "Metadata", TRUE),
        RoomPattern("^\\d+\\.\\d+$", "Lange decimal tal (over 6 cifre)", TRUE),
        RoomPattern("^(width|height|scale|rotation|metadata|properties)$", "Tekniske termer", TRUE),
        RoomPattern("^[\\d.]+$", "Kun tal og punktummer", TRUE)>>,
     min_text_length |-> 1,
     max_text_length |-> 15,
     case_sensitive |-> FALSE]

\* Variant of _is_room_text_with_config that tries the room patterns before
\* the exclude patterns.
room_patterns_first(c, text, font_size, normalized_font_size) ==
    IF Len(text) < c.min_text_length \/ Len(text) > c.max_text_length THEN FALSE
    ELSE IF ~ \E k \in DOMAIN c.font_size_ranges :
                 contains(c.font_size_ranges[k], font_size) THEN FALSE
    ELSE IF \E k \in DOMAIN c.room_patterns : matches(c.room_patterns[k], text) THEN TRUE
    ELSE FALSE

\* Variant of _is_room_text_with_config whose length test also rejects a
\* text as long as a bound.
length_bounds_exclusive(c, text, font_size, normalized_font_size) ==
    IF Len(text) <= c.min_text_length \/ Len(text) >= c.max_text_length THEN FALSE
    ELSE IF ~ \E k \in DOMAIN c.font_size_ranges :
                 contains(c.font_size_ranges[k], font_size) THEN FALSE
    ELSE IF \E k \in DOMAIN c.exclude_patterns :
                 matches(c.exclude_patterns[k], text) THEN FALSE
    ELSE \E k \in DOMAIN c.room_patterns : matches(c.room_patterns[k], text)

(***************************************************************************)
(* pdf_parser.py: the classifier of PDFParser.  config is Optional: <<>>   *)
(* is None, <<c>> is the BuildingConfig c.                                 *)
(***************************************************************************)
\* a loop  for pattern in ps: if pattern.matches(text): return ...  raises:
\* it reaches a pattern whose matches call raises
patterns_raise(ps, text) ==
    \E k \in DOMAIN ps :
        /\ matches_raises(ps[k], text)
        /\ \A j \in 1 .. k - 1 : ~matches(ps[j], text)
\* PDFParser._is_room_text_with_config raises
is_room_text_with_config_raises(c, text, font_size, normalized_font_size) ==
    IF Len(text) < c.min_text_length \/ Len(text) > c.max_text_length THEN FALSE
    ELSE IF ~ \E k \in DOMAIN c.font_size_ranges :
                 contains(c.font_size_ranges[k], font_size) THEN FALSE
    ELSE IF patterns_raise(c.exclude_patterns, text) THEN TRUE
    ELSE IF \E k \in DOMAIN c.exclude_patterns :
                 matches(c.exclude_patterns[k], text) THEN FALSE
    ELSE patterns_raise(c.room_patterns, text)

\* PDFParser._is_room_text_with_config: the value returned when it returns
is_room_text_with_config(c, text, font_size, normalized_font_size) ==
    IF Len(text) < c.min_text_length \/ Len(text) > c.max_text_length THEN FALSE
    ELSE IF ~ \E k \in DOMAIN c.font_size_ranges :
                 contains(c.font_size_ranges[k], font_size) THEN FALSE
    ELSE IF \E k \in DOMAIN c.exclude_patterns :
                 matches(c.exclude_patterns[k], text) THEN FALSE
    ELSE \E k \in DOMAIN c.room_patterns : matches(c.room_patterns[k], text)

\* PDFParser._is_room_text_default
is_room_text_default(use_ocr, text, font_size, normalized_font_size) ==
    LET is_valid_font_size ==
            \/ 320 <= font_size /\ font_size <= 360
            \/ 4900 <= font_size /\ font_size <= 4940
            \/ use_ocr /\ 100 <= font_size /\ font_size <= 10000
    IN  IF Len(text) < 1 THEN FALSE
        ELSE IF ~is_valid_font_size THEN FALSE
        ELSE IF re_match(ExArea, text, TRUE) THEN FALSE
        ELSE IF re_match(ExMetadata, text, TRUE) THEN FALSE
        ELSE IF re_match(ExDecimal, text, FALSE) /\ Len(text) > 6 THEN FALSE
        ELSE IF re_match(ExTechnical, text, TRUE) THEN FALSE
        ELSE IF re_match(PatSeparated, text, TRUE) THEN TRUE
        ELSE IF re_match(PatTwoByTwo, text, FALSE) THEN TRUE
        ELSE IF re_match(PatLetterDot, text, TRUE) THEN TRUE
        ELSE IF re_match(PatPrefixed, text, TRUE) THEN TRUE
        ELSE IF re_match(PatLetterDigits, text, TRUE) THEN TRUE
        ELSE IF re_match(PatDigitsLetter, text, TRUE) THEN TRUE
        ELSE IF re_match(PatShortCode, text, TRUE) THEN TRUE
        ELSE IF re_match(PatBroad, text, TRUE) /\ ~re_match(ExNumeric, text, FALSE) THEN TRUE
        ELSE FALSE

\* PDFParser.is_room_text
is_room_text_raises(config, use_ocr, text, font_size, normalized_font_size) ==
    /\ text # <<>>
    /\ config # <<>>
    /\ is_room_text_with_config_raises(config[1], text, font_size, normalized_font_size)
is_room_text(config, use_ocr, text, font_size, normalized_font_size) ==
    IF text = <<>> THEN FALSE
    ELSE IF config # <<>>
         THEN is_room_text_with_config(config[1], text, font_size, normalized_font_size)
         ELSE is_room_text_default(use_ocr, text, font_size, normalized_font_size)

\* Variant of is_entrance_text that folds case whatever case_sensitive says.
is_entrance_text_folding(config, text) ==
    IF config # <<>>
    THEN \E k \in DOMAIN config[1].entrance_keywords :
             Contains(lower(config[1].entrance_keywords[k]), lower(text))
    ELSE Contains(KwIndgang, lower(text))

\* PDFParser.is_entrance_text
is_entrance_text(config, text) ==
    IF config # <<>>
    THEN LET c == config[1]
             text_lower == IF ~c.case_sensitive THEN lower(text) ELSE text
         IN  \E k \in DOMAIN c.entrance_keywords :
                 LET keyword == c.entrance_keywords[k]
                     keyword_check == IF ~c.case_sensitive THEN lower(keyword) ELSE keyword
                 IN  Contains(keyword_check, text_lower)
    ELSE Contains(KwIndgang, lower(text))

(***************************************************************************)
(* Coordinates.  A normalized coordinate (a float in [0,1]) is the         *)
(* fraction <<n, d>> in lowest terms, d > 0.                               *)
(***************************************************************************)
RECURSIVE Gcd(_, _)
Gcd(a, b) == IF b = 0 THEN a ELSE Gcd(b, a % b)
Abs(a) == IF a < 0 THEN -a ELSE a
\* n / d
Frac(n, d) == LET g == Gcd(Abs(n), d) IN <<n \div g, d \div g>>
FracSub(p, q) == Frac(p[1] * q[2] - q[1] * p[2], p[2] * q[2])
FracAdd(p, q) == Frac(p[1] * q[2] + q[1] * p[2], p[2] * q[2])
FracMul(p, q) == Frac(p[1] * q[1], p[2] * q[2])
FracLess(p, q) == p[1] * q[2] < q[1] * p[2]

(***************************************************************************)
(* pdf_parser.py: extraction.  A document is                               *)
(*   [openable, rect |-> [width, height], spans, ocr]                      *)
(* where spans lists the spans of page.get_text("dict") in traversal       *)
(* order (block, line, span; blocks without lines carry none), each        *)
(* [text, size, bbox |-> <<x0, y0, x1, y1>>] (rect and bbox are lengths in  *)
(* quarters of a point), and ocr is what the                               *)
(* recognizer does with this page: [reader_ok, scales], scales[k] being    *)
(* [ok, results] for the k-th render scale, each result                    *)
(* [bbox |-> four <<x, y>> corners in tenths of a pixel, text,             *)
(*  confidence in hundredths].                                             *)
(***************************************************************************)
\* scales = [2.0, 3.0, 1.5], in tenths
scales == <<20, 30, 15>>

\* size_scale_factor = (actual_size / reference_size) ** 0.5 for the pages of
\* the model, which are A4 (595 x 842) enlarged k times
size_scale_factor(rect) ==
    CHOOSE k \in 1 .. 4 : rect.width * rect.height = k * k * 16 * (595 * 842)

EntranceLabel(text, x, y, font_size, normalized_font_size) ==
    [text |-> text, x |-> x, y |-> y, font_size |-> font_size,
     normalized_font_size |-> normalized_font_size]
RoomLabel(id, text, x, y, font_size, normalized_font_size) ==
    [id |-> id, text |-> text, x |-> x, y |-> y, font_size |-> font_size,
     normalized_font_size |-> normalized_font_size]
OcrEntranceLabel(text, x, y, font_size, confidence) ==
    [text |-> text, x |-> x, y |-> y, font_size |-> font_size,
     normalized_font_size |-> font_size, confidence |-> confidence,
     ocr_extracted |-> TRUE, ocr_method |-> "easyocr"]
OcrRoomLabel(text, x, y, font_size, confidence) ==
    [id |-> text, text |-> text, x |-> x, y |-> y, font_size |-> font_size,
     normalized_font_size |-> font_size, confidence |-> confidence,
     ocr_extracted |-> TRUE, ocr_method |-> "easyocr"]

\* has_text = any(span.get("text", "").strip() ...)
has_text(doc) == \E k \in DOMAIN doc.spans : strip(doc.spans[k].text) # <<>>

\* Variant of the span loop that puts a new room in front of the rooms
\* collected so far.
RECURSIVE native_spans_prepending(_, _, _, _, _)
native_spans_prepending(config, use_ocr, doc, k, acc) ==
    IF k > Len(doc.spans) THEN acc
    ELSE LET span == doc.spans[k]
             text == strip(span.text)
             font_size == span.size
             bbox == span.bbox
             normalized_font_size == font_size \div size_scale_factor(doc.rect)
             norm_x == Frac(bbox[1] + bbox[3], 2 * doc.rect.width)
             norm_y == Frac(bbox[2] + bbox[4], 2 * doc.rect.height)
         IN  IF text = <<>> THEN native_spans_prepending(config, use_ocr, doc, k + 1, acc)
             ELSE IF is_entrance_text(config, text)
             THEN native_spans_prepending(config, use_ocr, doc, k + 1,
                     [acc EXCEPT !.entrances = Append(@,
                         EntranceLabel(text, norm_x, norm_y, font_size,
                                       normalized_font_size))])
             ELSE IF is_room_text_raises(config, use_ocr, text, font_size,
                                         normalized_font_size)
             THEN acc
             ELSE IF is_room_text(config, use_ocr, text, font_size, normalized_font_size)
             THEN native_spans_prepending(config, use_ocr, doc, k + 1,
                     [acc EXCEPT !.rooms = <<RoomLabel(upper(text), text, norm_x, norm_y,
                                                       font_size, normalized_font_size)>>
                                           \o @])
             ELSE native_spans_prepending(config, use_ocr, doc, k + 1, acc)
\* the span loop of extract_text_with_coordinates, from span k on; acc is
\* [rooms, entrances] so far
RECURSIVE native_spans(_, _, _, _, _)
native_spans(config, use_ocr, doc, k, acc) ==
    IF k > Len(doc.spans) THEN acc
    ELSE LET span == doc.spans[k]
             text == strip(span.text)
             font_size == span.size
             bbox == span.bbox
             normalized_font_size == font_size \div size_scale_factor(doc.rect)
             norm_x == Frac(bbox[1] + bbox[3], 2 * doc.rect.width)
             norm_y == Frac(bbox[2] + bbox[4], 2 * doc.rect.height)
         IN  IF text = <<>> THEN native_spans(config, use_ocr, doc, k + 1, acc)
             ELSE IF is_entrance_text(config, text)
             THEN native_spans(config, use_ocr, doc, k + 1,
                     [acc EXCEPT !.entrances = Append(@,
                         EntranceLabel(text, norm_x, norm_y, font_size,
                                       normalized_font_size))])
             ELSE IF is_room_text_raises(config, use_ocr, text, font_size,
                                         normalized_font_size)
             THEN acc  \* except Exception: the lists so far are returned
             ELSE IF is_room_text(config, use_ocr, text, font_size, normalized_font_size)
             THEN native_spans(config, use_ocr, doc, k + 1,
                     [acc EXCEPT !.rooms = Append(@,
                         RoomLabel(upper(text), text, norm_x, norm_y, font_size,
                                   normalized_font_size))])
             ELSE native_spans(config, use_ocr, doc, k + 1, acc)

\* np.max / np.min over the y of the corners, np.sum over one coordinate
MaxOf(S) == CHOOSE m \in S : \A n \in S : n <= m
MinOf(S) == CHOOSE m \in S : \A n \in S : m <= n
CornerSum(bbox, c) == bbox[1][c] + bbox[2][c] + bbox[3][c] + bbox[4][c]

\* the result loop of _extract_with_easyocr at one scale, from result k on
NoLabels == [rooms |-> <<>>, entrances |-> <<>>]
RECURSIVE ocr_results(_, _, _, _, _, _, _)
ocr_results(config, use_ocr, doc, scale, results, k, acc) ==
    IF k > Len(results) THEN acc
    ELSE LET r == results[k]
             text_clean == strip(upper(r.text))
             ys == {r.bbox[c][2] : c \in 1 .. 4}
             \* np.mean(xs) / (page_rect.width * scale), the mean in tenths of a
             \* pixel, the width in quarter points and the scale in tenths
             center_x == Frac(CornerSum(r.bbox, 1), doc.rect.width * scale)
             center_y == Frac(CornerSum(r.bbox, 2), doc.rect.height * scale)
             bbox_height == MaxOf(ys) - MinOf(ys)
             font_size == (bbox_height * 100) \div scale
         IN  IF r.confidence < 30 THEN ocr_results(config, use_ocr, doc, scale, results, k + 1, acc)
             ELSE IF Len(text_clean) < 2
             THEN ocr_results(config, use_ocr, doc, scale, results, k + 1, acc)
             ELSE IF is_entrance_text(config, text_clean)
             THEN ocr_results(config, use_ocr, doc, scale, results, k + 1,
                     [acc EXCEPT !.entrances = Append(@,
                         OcrEntranceLabel(text_clean, center_x, center_y, font_size,
                                          r.confidence))])
             ELSE IF is_room_text_raises(config, use_ocr, text_clean, font_size, font_size)
             THEN NoLabels  \* except Exception: continue, as a scale that finds
                            \* nothing
             ELSE IF is_room_text(config, use_ocr, text_clean, font_size, font_size)
             THEN ocr_results(config, use_ocr, doc, scale, results, k + 1,
                     [acc EXCEPT !.rooms = Append(@,
                         OcrRoomLabel(text_clean, center_x, center_y, font_size,
                                      r.confidence))])
             ELSE ocr_results(config, use_ocr, doc, scale, results, k + 1, acc)

\* the scale loop of _extract_with_easyocr, from the k-th scale on; best is
\* best_results and best_count its size
RECURSIVE ocr_scales(_, _, _, _, _, _)
\* Variant of keep_best that also replaces the best lists on an equal count.
keep_best_on_tie(config, use_ocr, doc, k, best, best_count, found, total_found) ==
    IF total_found >= best_count
    THEN ocr_scales(config, use_ocr, doc, k + 1, found, total_found)
    ELSE ocr_scales(config, use_ocr, doc, k + 1, best, best_count)
\* the end of one turn of the loop: found holds the lists of this scale
keep_best(config, use_ocr, doc, k, best, best_count, found, total_found) ==
    IF total_found > best_count
    THEN ocr_scales(config, use_ocr, doc, k + 1, found, total_found)
    ELSE ocr_scales(config, use_ocr, doc, k + 1, best, best_count)
count_found(config, use_ocr, doc, k, best, best_count, found) ==
    keep_best(config, use_ocr, doc, k, best, best_count, found,
              Len(found.rooms) + Len(found.entrances))
ocr_scales(config, use_ocr, doc, k, best, best_count) ==
    IF k > Len(scales) THEN best
    ELSE IF ~doc.ocr.scales[k].ok
    THEN ocr_scales(config, use_ocr, doc, k + 1, best, best_count)
    ELSE count_found(config, use_ocr, doc, k, best, best_count,
                     ocr_results(config, use_ocr, doc, scales[k],
                                 doc.ocr.scales[k].results, 1, NoLabels))

\* the end of _extract_with_easyocr: the labels returned and self.use_ocr
easyocr_return(use_ocr, best) ==
    [labels |-> best,
     use_ocr |-> IF Len(best.rooms) > 0 \/ Len(best.entrances) > 0 THEN TRUE ELSE use_ocr]

\* PDFParser._extract_with_easyocr: the labels returned and self.use_ocr
\* after the call (the loop classifies with the value before the call)
extract_with_easyocr(config, use_ocr, doc, installed) ==
    IF ~installed \/ ~doc.ocr.reader_ok THEN [labels |-> NoLabels, use_ocr |-> use_ocr]
    ELSE easyocr_return(use_ocr, ocr_scales(config, use_ocr, doc, 1, NoLabels, 0))

\* PDFParser._extract_with_ocr, entered with OCR_AVAILABLE = True, so that
\* check_ocr_availability returns the flag as it is
extract_with_ocr(config, use_ocr, doc, ocr_available, ocr_method, installed) ==
    IF ocr_available # <<TRUE>> THEN [labels |-> NoLabels, use_ocr |-> use_ocr]
    ELSE IF ocr_method = <<"easyocr">>
    THEN extract_with_easyocr(config, use_ocr, doc, installed)
    ELSE [labels |-> NoLabels, use_ocr |-> use_ocr]

\* PDFParser.extract_text_with_coordinates on a loaded document
extract_text_with_coordinates(config, use_ocr, doc, ocr_available, ocr_method, installed) ==
    IF ~has_text(doc) /\ ocr_available = <<TRUE>>
    THEN extract_with_ocr(config, use_ocr, doc, ocr_available, ocr_method, installed)
    ELSE IF ~has_text(doc) THEN [labels |-> NoLabels, use_ocr |-> use_ocr]
    ELSE [labels |-> native_spans(config, use_ocr, doc, 1, NoLabels),
          use_ocr |-> use_ocr]

(***************************************************************************)
(* building_config.py: the configuration store.  The store maps a building *)
(* name to Optional of the content of its .json file:                      *)
(*   [form |-> "json", object |-> TRUE, data |-> d]   text that json.load  *)
(*                                   parses to the dict d                  *)
(*   [form |-> "json", object |-> FALSE]   text that parses to a list, a   *)
(*                                   string, a number or null              *)
(*   [form |-> "garbled"]            UTF-8 text that is not JSON           *)
(*   [form |-> "undecodable"]        bytes that are not UTF-8 text         *)
(***************************************************************************)
JsonObject(d) == [form |-> "json", object |-> TRUE, data |-> d]
JsonOther == [form |-> "json", object |-> FALSE]
Garbled == [form |-> "garbled"]
Undecodable == [form |-> "undecodable"]

PatternDicts(ps) ==
    [k \in DOMAIN ps |-> [pattern |-> ps[k].pattern, description |-> ps[k].description,
                          enabled |-> ps[k].enabled]]
\* BuildingConfig.to_dict
to_dict(c) ==
    [building_name |-> c.building_name,
     font_size_ranges |-> [k \in DOMAIN c.font_size_ranges |->
                              [min_size |-> c.font_size_ranges[k].min_size,
                               max_size |-> c.font_size_ranges[k].max_size]],
     room_patterns |-> PatternDicts(c.room_patterns),
     entrance_keywords |-> c.entrance_keywords,
     exclude_patterns |-> PatternDicts(c.exclude_patterns),
     min_text_length |-> c.min_text_length,
     max_text_length |-> c.max_text_length,
     case_sensitive |-> c.case_sensitive]

\* data.get(key, default)
DictGetOr(data, key, default) == IF key \in DOMAIN data THEN data[key] ELSE default
PatternsOf(ds) == [k \in DOMAIN ds |-> RoomPattern(ds[k].pattern, ds[k].description, ds[k].enabled)]
RangesOf(rs) == [k \in DOMAIN rs |-> FontSizeRange(rs[k].min_size, rs[k].max_size)]

\* Variant of from_dict that does not read the stored case_sensitive.
from_dict_default_case(data) ==
    [building_name |-> data.building_name,
     font_size_ranges |-> RangesOf(DictGetOr(data, "font_size_ranges", <<>>)),
     room_patterns |-> PatternsOf(DictGetOr(data, "room_patterns", <<>>)),
     entrance_keywords |-> DictGetOr(data, "entrance_keywords", <<>>),
     exclude_patterns |-> PatternsOf(DictGetOr(data, "exclude_patterns", <<>>)),
     min_text_length |-> DictGetOr(data, "min_text_length", 1),
     max_text_length |-> DictGetOr(data, "max_text_length", 15),
     case_sensitive |-> FALSE]

\* BuildingConfig.from_dict, for a dict that holds building_name
from_dict(data) ==
    [building_name |-> data.building_name,
     font_size_ranges |-> RangesOf(DictGetOr(data, "font_size_ranges", <<>>)),
     room_patterns |-> PatternsOf(DictGetOr(data, "room_patterns", <<>>)),
     entrance_keywords |-> DictGetOr(data, "entrance_keywords", <<>>),
     exclude_patterns |-> PatternsOf(DictGetOr(data, "exclude_patterns", <<>>)),
     min_text_length |-> DictGetOr(data, "min_text_length", 1),
     max_text_length |-> DictGetOr(data, "max_text_length", 15),
     case_sensitive |-> DictGetOr(data, "case_sensitive", FALSE)]

\* ConfigurationManager.save_config (the write succeeds): json.dump writes
\* the dict as a JSON object into the file named after config.building_name
save_config(st, config) ==
    [st EXCEPT ![config.building_name] = <<JsonObject(to_dict(config))>>]

\* the end of load_config when there is no usable file
save_default(st, default_config) ==
    [raised |-> FALSE, config |-> default_config, store |-> save_config(st, default_config)]

\* the try block of load_config on an existing file: "returned" when
\* from_dict made a configuration; "caught" when json.load raised
\* JSONDecodeError, or from_dict raised KeyError (no building_name) or
\* TypeError (not a dict): the except clause takes these; "raised" when
\* reading the file raised UnicodeDecodeError, which the clause does not name
try_load(file) ==
    IF file.form = "undecodable" THEN "raised"
    ELSE IF file.form = "garbled" THEN "caught"
    ELSE IF ~file.object THEN "caught"
    ELSE IF "building_name" \notin DOMAIN file.data THEN "caught"
    ELSE "returned"

\* ConfigurationManager.load_config: whether the call raised and, when it
\* did not, the configuration returned; the store after the call
load_config(st, building_name) ==
    LET outcome == IF st[building_name] = <<>> THEN "absent"
                   ELSE try_load(st[building_name][1])
    IN  IF outcome = "returned"
        THEN [raised |-> FALSE, config |-> from_dict(st[building_name][1].data),
              store |-> st]
        ELSE IF outcome = "raised" THEN [raised |-> TRUE, store |-> st]
        ELSE save_default(st, create_default_config(building_name))

(***************************************************************************)
(* Python dict: the sequence of its [key, value] entries in insertion      *)
(* order.                                                                  *)
(***************************************************************************)
DictKeys(d) == [k \in DOMAIN d |-> d[k].key]
DictHas(d, key) == \E k \in DOMAIN d : d[k].key = key
DictGet(d, key) == d[CHOOSE k \in DOMAIN d : d[k].key = key].value
\* d[key] = value: a new key goes last, a known key keeps its place
DictSet(d, key, value) ==
    IF DictHas(d, key)
    THEN [k \in DOMAIN d |-> IF d[k].key = key THEN [key |-> key, value |-> value] ELSE d[k]]
    ELSE Append(d, [key |-> key, value |-> value])

(***************************************************************************)
(* pdf_parser.py: BuildingManager.                                         *)
(***************************************************************************)
\* f.endswith('.pdf')
DotPdf == <<".","p","d","f">>
endswith(text, suffix) ==
    /\ Len(text) >= Len(suffix)
    /\ SubSeq(text, Len(text) - Len(suffix) + 1, Len(text)) = suffix

\* os.path.splitext(filename)[0]: cut at the last dot, unless every character
\* before it is a dot
splitext0(filename) ==
    LET dots == {k \in DOMAIN filename : filename[k] = "."}
    IN  IF dots = {} THEN filename
        ELSE LET last == MaxOf(dots)
             IN  IF \A k \in 1 .. (last - 1) : filename[k] = "." THEN filename
                 ELSE SubSeq(filename, 1, last - 1)

\* list.sort() of file names: insertion into a sorted list
RECURSIVE Insert(_, _)
Insert(sorted, f) ==
    IF sorted = <<>> THEN <<f>>
    ELSE IF StrLess(f.name, Head(sorted).name) THEN <<f>> \o sorted
    ELSE <<Head(sorted)>> \o Insert(Tail(sorted), f)
RECURSIVE sort(_)
sort(files) == IF files = <<>> THEN <<>> ELSE Insert(sort(Tail(files)), Head(files))

\* [f for f in os.listdir(building_path) if f.endswith('.pdf')]
RECURSIVE pdf_files(_)
pdf_files(listing) ==
    IF listing = <<>> THEN <<>>
    ELSE IF endswith(Head(listing).name, DotPdf)
    THEN <<Head(listing)>> \o pdf_files(Tail(listing))
    ELSE pdf_files(Tail(listing))

\* Variant of the scan of search_room in which the last floor holding the
\* id wins.
search_last_floor(rooms_by_floor, parsers, room_query, k) ==
    LET holding == {j \in k .. Len(rooms_by_floor) :
                       \E i \in DOMAIN rooms_by_floor[j].value :
                           rooms_by_floor[j].value[i].id = room_query}
        j == MaxOf(holding)
        hits == {i \in DOMAIN rooms_by_floor[j].value :
                    rooms_by_floor[j].value[i].id = room_query}
    IN  IF holding = {} THEN <<>>
        ELSE <<[room |-> rooms_by_floor[j].value[MinOf(hits)],
                floor |-> rooms_by_floor[j].key,
                parser |-> DictGet(parsers, rooms_by_floor[j].key)]>>

\* Variant of search_room's loop that takes a room whose id starts with the
\* query.
RECURSIVE search_prefix(_, _, _, _)
search_prefix(rooms_by_floor, parsers, room_query, k) ==
    IF k > Len(rooms_by_floor) THEN <<>>
    ELSE LET floor_name == rooms_by_floor[k].key
             rooms == rooms_by_floor[k].value
             hits == {i \in DOMAIN rooms :
                         /\ Len(room_query) <= Len(rooms[i].id)
                         /\ SubSeq(rooms[i].id, 1, Len(room_query)) = room_query}
         IN  IF hits # {}
             THEN <<[room |-> rooms[MinOf(hits)], floor |-> floor_name,
                     parser |-> DictGet(parsers, floor_name)]>>
             ELSE search_prefix(rooms_by_floor, parsers, room_query, k + 1)
\* BuildingManager.search_room: Optional of [room, floor, parser]
RECURSIVE search_from(_, _, _, _)
search_from(rooms_by_floor, parsers, room_query, k) ==
    IF k > Len(rooms_by_floor) THEN <<>>
    ELSE LET floor_name == rooms_by_floor[k].key
             rooms == rooms_by_floor[k].value
             hits == {i \in DOMAIN rooms : rooms[i].id = room_query}
         IN  IF hits # {}
             THEN <<[room |-> rooms[MinOf(hits)], floor |-> floor_name,
                     parser |-> DictGet(parsers, floor_name)]>>
             ELSE search_from(rooms_by_floor, parsers, room_query, k + 1)
\* Variant of search_room that compares the ids with the trimmed query as
\* typed.
search_room_as_typed(rooms_by_floor, parsers, room_query) ==
    search_from(rooms_by_floor, parsers, strip(room_query), 1)
search_room(rooms_by_floor, parsers, room_query) ==
    search_from(rooms_by_floor, parsers, strip(upper(room_query)), 1)

\* any(keyword in floor_name.lower() for keyword in ['stue', 'ground', '0'])
is_ground_floor(floor_name) ==
    \E keyword \in {<<"s","t","u","e">>, <<"g","r","o","u","n","d">>, <<"0">>} :
        Contains(keyword, lower(floor_name))

\* the floor names kept, in order: the ground floors, or all of them
RECURSIVE SelectKeys(_, _)
SelectKeys(keys, ground_only) ==
    IF keys = <<>> THEN <<>>
    ELSE IF ~ground_only \/ is_ground_floor(Head(keys))
    THEN <<Head(keys)>> \o SelectKeys(Tail(keys), ground_only)
    ELSE SelectKeys(Tail(keys), ground_only)

\* all_entrances.extend(...) over the target floors
RECURSIVE gather(_, _)
gather(entrances_by_floor, target_floors) ==
    IF target_floors = <<>> THEN <<>>
    ELSE DictGet(entrances_by_floor, Head(target_floors))
         \o gather(entrances_by_floor, Tail(target_floors))

\* (ex - x) ** 2 + (ey - y) ** 2: the square of the distance the code compares
distance2(entrance, room_x, room_y) ==
    FracAdd(FracMul(FracSub(entrance.x, room_x), FracSub(entrance.x, room_x)),
            FracMul(FracSub(entrance.y, room_y), FracSub(entrance.y, room_y)))

\* Variant of the minimum loop in which a later entrance at the same
\* distance replaces the nearest so far.
RECURSIVE nearest_last(_, _, _, _, _)
nearest_last(candidates, room_x, room_y, k, nearest) ==
    IF k > Len(candidates) THEN nearest
    ELSE IF nearest = <<>>
            \/ ~FracLess(distance2(nearest[1], room_x, room_y),
                         distance2(candidates[k], room_x, room_y))
    THEN nearest_last(candidates, room_x, room_y, k + 1, <<candidates[k]>>)
    ELSE nearest_last(candidates, room_x, room_y, k + 1, nearest)

\* the minimum loop: a later entrance replaces the nearest so far only when
\* it is strictly nearer
RECURSIVE nearest_from(_, _, _, _, _)
nearest_from(candidates, room_x, room_y, k, nearest) ==
    IF k > Len(candidates) THEN nearest
    ELSE IF nearest = <<>>
            \/ FracLess(distance2(candidates[k], room_x, room_y),
                        distance2(nearest[1], room_x, room_y))
    THEN nearest_from(candidates, room_x, room_y, k + 1, <<candidates[k]>>)
    ELSE nearest_from(candidates, room_x, room_y, k + 1, nearest)

\* Variant of the choice of floors without the ground-floor preference.
every_floor(entrances_by_floor) == DictKeys(entrances_by_floor)

\* the floors get_nearest_entrance takes its candidates from
target_floors(entrances_by_floor) ==
    LET ground_floor_candidates == SelectKeys(DictKeys(entrances_by_floor), TRUE)
    IN  IF ground_floor_candidates # <<>> THEN ground_floor_candidates
        ELSE DictKeys(entrances_by_floor)

\* BuildingManager.get_nearest_entrance: Optional of an entrance
get_nearest_entrance(entrances_by_floor, room_x, room_y) ==
    nearest_from(gather(entrances_by_floor, target_floors(entrances_by_floor)),
                 room_x, room_y, 1, <<>>)

(***************************************************************************)
(* Inputs of the classifier: configurations, texts and font sizes.         *)
(***************************************************************************)
Sigma == {"A", "a", "1", ".", "_"}
\* every text over Sigma of length 0 .. n
ShortTexts(n) == UNION {[1 .. k -> Sigma] : k \in 0 .. n}
\* texts of the deployment and of the scenarios of the specification
SpecialTexts == {
    <<"A","1","0","1">>, <<"a","1","0","1">>, <<"1","0","1">>, <<"2","0","2","A">>,
    <<"1","2",".","5","m","2">>, <<"1","2",".","5","M","2">>,
    <<"0","1","_","0","2">>, <<"A",".","1",".","0","1">>,
    <<"P","H","-","D","1",".","1","1","_","0","1">>,
    <<"1","2","3","4",".","5","6">>, <<"1","2",".","5">>,
    <<"w","i","d","t","h">>, <<"S","c","a","l","e">>,
    <<"A","r","e","a",":">>, <<"T","y","p","e",":","A","1">>,
    <<"i","n","d","g","a","n","g">>, <<"I","n","d","g","a","n","g"," ","A","1">>,
    <<"I","N","D","G","A","N","G">>, <<"E","n","t","r","y">>,
    <<"e","n","t","r","a","n","c","e","-","1">>,
    <<"A","-","0","1","/","2">>, <<"A","1",":","2">>, <<"A"," ","1">>,
    <<"A","-","0","1","2","3","4","5","6","7","8","9","0","1","2">>,
    <<"A","-","0","1","2","3","4","5","6","7","8","9","0","1","2","3">>,
    <<"A","B","C","D","E","F","G","H","I">>,
    <<"A","B","C","D","E","F","G","H","I","J","K">>}
Texts == ShortTexts(MaxLen) \cup SpecialTexts

\* raw font sizes around the edges of the bands, and OCR-only sizes
FontSizes == {0, 100, 319, 320, 340, 360, 361, 4900, 4940, 4941, 10001}
NormalizedSizes == {170, 340}

DefaultConfig == create_default_config("B1")
\* the configuration of the A101 scenario
ScenarioConfig ==
    [DefaultConfig EXCEPT
        !.font_size_ranges = <<FontSizeRange(320, 360)>>,
        !.room_patterns = <<RoomPattern("^[A-Z]{1,2}\\d{2,4}$", "A101", TRUE)>>,
        !.exclude_patterns = <<>>]
\* short keywords and tight length bounds
TightConfig ==
    [DefaultConfig EXCEPT
        !.entrance_keywords = <<<<"A","1">>, <<"a",".">>>>,
        !.min_text_length = 2,
        !.max_text_length = 3]
TightCaseConfig == [TightConfig EXCEPT !.case_sensitive = TRUE]
\* the default keywords, compared case-sensitively
CaseConfig == [DefaultConfig EXCEPT !.case_sensitive = TRUE]
\* bands in the other order, one exclude pattern disabled, one malformed
EditedConfig ==
    [DefaultConfig EXCEPT
        !.font_size_ranges = <<FontSizeRange(4900, 4940), FontSizeRange(320, 360),
                               FontSizeRange(100, 99)>>,
        !.exclude_patterns = <<RoomPattern("^[\\d.]+$", "Kun tal og punktummer", FALSE),
                               RoomPattern("(", "malformed", TRUE),
                               RoomPattern("^\\d+\\.\\d+$", "decimal", TRUE)>>,
        !.room_patterns = <<RoomPattern("[", "malformed", TRUE),
                            RoomPattern("^[A-Z0-9]{2,8}$", "kode", FALSE),
                            RoomPattern("^\\d{2,4}[A-Z]?$", "101", TRUE),
                            RoomPattern("^[A-Z0-9]{1,4}[-._][A-Z0-9]{1,4}", "A-01", TRUE)>>,
        !.entrance_keywords = <<>>]
\* no band at all
NoBandConfig == [DefaultConfig EXCEPT !.font_size_ranges = <<>>]
\* a repeat count too large for the regex compiler, between two usable
\* patterns
OverflowConfig ==
    [DefaultConfig EXCEPT
        !.room_patterns = <<RoomPattern("^\\d{2,4}[A-Z]?$", "101", TRUE),
                            RoomPattern(RepeatTooLarge, "too large", TRUE),
                            RoomPattern("^[A-Z]{1,2}\\d{2,4}$", "A101", TRUE)>>]
Configs == {DefaultConfig, ScenarioConfig, TightConfig, TightCaseConfig,
            EditedConfig, NoBandConfig, OverflowConfig}
\* the patterns RoomPattern.matches is called on
Patterns ==
    UNION {{c.room_patterns[k] : k \in DOMAIN c.room_patterns}
           \cup {c.exclude_patterns[k] : k \in DOMAIN c.exclude_patterns} : c \in Configs}
\* Optional[BuildingConfig]
OptConfigs == {<<>>} \cup {<<c>> : c \in Configs}

(***************************************************************************)
(* Inputs of the extraction: pages with native text, image-only pages.     *)
(***************************************************************************)
\* 595 x 842 points, and the same page twice as large
A4 == [width |-> 4 * 595, height |-> 4 * 842]
A4x2 == [width |-> 8 * 595, height |-> 8 * 842]
\* a bbox whose centre is (cx/4, cy/4) of the page
BoxAt(rect, cx, cy) ==
    <<(rect.width * cx) \div 4 - 40, (rect.height * cy) \div 4 - 8,
      (rect.width * cx) \div 4 + 40, (rect.height * cy) \div 4 + 8>>
Span(text, size, bbox) == [text |-> text, size |-> size, bbox |-> bbox]
SpanTexts == {
    <<" ","A","1","0","1"," ">>, <<"a","1","0","1">>, <<"I","n","d","g","a","n","g">>,
    <<"a",".","1">>, <<"1","2",".","5","m","2">>, <<" "," ">>}
SpansOn(rect) ==
    {Span(<<" ","A","1","0","1"," ">>, 340, BoxAt(rect, 1, 1)),
     Span(<<"a","1","0","1">>, 680, BoxAt(rect, 3, 3)),
     Span(<<"I","n","d","g","a","n","g">>, 340, BoxAt(rect, 1, 3)),
     Span(<<"a",".","1">>, 340, BoxAt(rect, 3, 1)),
     Span(<<"1","2",".","5","m","2">>, 340, BoxAt(rect, 2, 2)),
     Span(<<" "," ">>, 340, BoxAt(rect, 2, 1))}
SeqsUpTo(S, n) == UNION {[1 .. k -> S] : k \in 0 .. n}

\* an axis-aligned quad, in tenths of a pixel
Quad(x0, y0, x1, y1) == <<<<x0, y0>>, <<x1, y0>>, <<x1, y1>>, <<x0, y1>>>>
OcrResult(bbox, text, confidence) == [bbox |-> bbox, text |-> text, confidence |-> confidence]
\* the box of a text 3.6 pt high, centred at (cx/5, cy/2) of an A4 page
\* rendered at scale sc
OcrBoxAt(sc, cx, cy) ==
    LET h == (36 * sc) \div 10
        x == (A4.width * sc * cx) \div 20
        y == (A4.height * sc * cy) \div 8
    IN  Quad(x - 200, y - h \div 2, x + 200, y + h \div 2)
\* what the recognizer can return for the render at scales[k]
OcrResultsAt(k) ==
    {OcrResult(OcrBoxAt(scales[k], 1, 1), <<"a","1","0","1">>, 90),
     OcrResult(OcrBoxAt(scales[k], 4, 1), <<"i","n","d","g","a","n","g">>, 80),
     OcrResult(OcrBoxAt(scales[k], 2, 1), <<"a",".","1">>, 30),
     OcrResult(OcrBoxAt(scales[k], 3, 1), <<"A","1","0","2">>, 29),
     OcrResult(OcrBoxAt(scales[k], 1, 2), <<" ","A"," ">>, 95)}
OcrOutcomesAt(k) ==
    {[ok |-> FALSE, results |-> <<>>]}
    \cup {[ok |-> TRUE, results |-> r] : r \in SeqsUpTo(OcrResultsAt(k), MaxOcr)}
NoOcr == [reader_ok |-> TRUE,
          scales |-> [k \in DOMAIN scales |-> [ok |-> TRUE, results |-> <<>>]]]
OcrBehaviours ==
    {[reader_ok |-> ro, scales |-> <<o1, o2, o3>>] :
        ro \in BOOLEAN, o1 \in OcrOutcomesAt(1), o2 \in OcrOutcomesAt(2),
        o3 \in OcrOutcomesAt(3)}

Document(rect, spans, ocr) ==
    [openable |-> TRUE, rect |-> rect, spans |-> spans, ocr |-> ocr]
\* pages with a native text layer (the recognizer never sees them)
NativeDocs ==
    {Document(A4, sp, NoOcr) : sp \in SeqsUpTo(SpansOn(A4), MaxSpans)}
    \cup {Document(A4x2, sp, NoOcr) : sp \in SeqsUpTo(SpansOn(A4x2), MaxSpans)}
\* image-only A4 pages: no span, or blank spans only
ImageDocs ==
    {Document(A4, sp, o) :
        sp \in {<<>>, <<Span(<<" "," ">>, 340, BoxAt(A4, 2, 1))>>}, o \in OcrBehaviours}
ExtractConfigs == {<<>>, <<DefaultConfig>>, <<TightConfig>>, <<TightCaseConfig>>,
                   <<CaseConfig>>, <<OverflowConfig>>}
\* Optional[bool], the values of the global OCR_AVAILABLE
OptBool == {<<>>, <<TRUE>>, <<FALSE>>}

(***************************************************************************)
(* Inputs of the building index: directories, queries.                     *)
(***************************************************************************)
Buildings == {"B1", "B2"}
FileNames == {<<"S","t","u","e",".","p","d","f">>, <<"1","s","a","l",".","p","d","f">>,
              <<"2","s","a","l",".","p","d","f">>}
\* a ground floor plan: two spellings of room A101, one entrance
DocGround ==
    Document(A4, <<Span(<<" ","A","1","0","1"," ">>, 340, BoxAt(A4, 1, 1)),
                   Span(<<"I","n","d","g","a","n","g">>, 340, BoxAt(A4, 1, 3)),
                   Span(<<"a","1","0","1">>, 340, BoxAt(A4, 3, 3))>>, NoOcr)
\* an upper floor plan: room A101 again, room B2, two entrances
DocUpper ==
    Document(A4x2, <<Span(<<"E","n","t","r","y"," ","1">>, 680, BoxAt(A4x2, 3, 1)),
                     Span(<<"A","1","0","1">>, 4920, BoxAt(A4x2, 2, 2)),
                     Span(<<"B","2">>, 4920, BoxAt(A4x2, 1, 1)),
                     Span(<<"e","n","t","r","a","n","c","e">>, 4920, BoxAt(A4x2, 3, 3))>>,
             NoOcr)
\* a scanned plan: the recognizer reads a room and an entrance at scale 2.0
DocScan ==
    Document(A4, <<>>,
             [reader_ok |-> TRUE,
              scales |-> <<[ok |-> TRUE,
                            results |-> <<OcrResult(OcrBoxAt(20, 1, 1), <<"c","3","0","3">>, 90),
                                          OcrResult(OcrBoxAt(20, 4, 1),
                                                    <<"i","n","d","g","a","n","g">>, 80)>>],
                           [ok |-> FALSE, results |-> <<>>],
                           [ok |-> TRUE, results |-> <<>>]>>])
\* a file fitz.open fails on
DocBroken == [openable |-> FALSE, rect |-> A4, spans |-> <<>>, ocr |-> NoOcr]
IndexDocs == {DocGround, DocUpper, DocScan, DocBroken}
Files == {[name |-> n, doc |-> d] : n \in FileNames, d \in IndexDocs}
\* what os.listdir can return: files with distinct names, in any order.
\* Building B1 holds up to MaxFiles plans, building B2 at most one.
Listings(b) ==
    {l \in SeqsUpTo(Files, IF b = "B1" THEN MaxFiles ELSE 1) :
        \A i, j \in DOMAIN l : i # j => l[i].name # l[j].name}

Queries == {<<" ","a","1","0","1"," ">>, <<"B","2">>, <<" ">>, <<>>}
\* query points: the rooms of the plans, and the middle of the page
Points == {<<Frac(1, 4), Frac(1, 4)>>, <<Frac(3, 4), Frac(3, 4)>>, <<Frac(1, 2), Frac(1, 2)>>,
           <<Frac(1, 5), Frac(1, 2)>>}

\* the extraction of every plan under every configuration and every state of
\* the OCR globals, computed once
OcrStates ==
    {<<<<>>, <<>>, TRUE>>, <<<<>>, <<>>, FALSE>>, <<<<TRUE>>, <<"easyocr">>, TRUE>>,
     <<<<FALSE>>, <<>>, FALSE>>, <<<<TRUE>>, <<"easyocr">>, FALSE>>,
     <<<<FALSE>>, <<>>, TRUE>>}
Extracted ==
    [c \in {create_default_config(b) : b \in Buildings}, d \in IndexDocs, o \in OcrStates |->
        extract_text_with_coordinates(<<c>>, FALSE, d, o[1], o[2], o[3])]

\* Variant of add_floor that stores the rooms and the entrances of a floor
\* only when the list is not empty.
add_floor_sparse(building_name, filename, m, got) ==
    LET floor_name == splitext0(filename)
    IN  [floors |-> DictSet(m.floors, floor_name,
                            [pdf_path |-> <<building_name, filename>>, doc |-> <<"open">>,
                             use_ocr |-> got.use_ocr]),
         all_rooms |-> IF got.labels.rooms = <<>> THEN m.all_rooms
                       ELSE DictSet(m.all_rooms, floor_name, got.labels.rooms),
         all_entrances |-> IF got.labels.entrances = <<>> THEN m.all_entrances
                           ELSE DictSet(m.all_entrances, floor_name, got.labels.entrances)]

\* the floor loop of load_building_floors over the sorted files, from file k
\* on; m is [floors, all_rooms, all_entrances].  A file is [name, doc].
\* one turn of the loop for a file that opens: got is what
\* parser.extract_text_with_coordinates() returned.  The PDFParser keeps the
\* Optional handle of the open document; its config is the manager's
\* current_config.
add_floor(building_name, filename, m, got) ==
    LET floor_name == splitext0(filename)
    IN  [floors |-> DictSet(m.floors, floor_name,
                            [pdf_path |-> <<building_name, filename>>, doc |-> <<"open">>,
                             use_ocr |-> got.use_ocr]),
         all_rooms |-> DictSet(m.all_rooms, floor_name, got.labels.rooms),
         all_entrances |-> DictSet(m.all_entrances, floor_name, got.labels.entrances)]
RECURSIVE load_files(_, _, _, _, _, _, _, _)
load_files(building_name, config, files, k, m, ocr_available, ocr_method, installed) ==
    IF k > Len(files) THEN m
    ELSE IF files[k].doc.openable
    THEN load_files(building_name, config, files, k + 1,
                    add_floor(building_name, files[k].name, m,
                              Extracted[config, files[k].doc,
                                        <<ocr_available, ocr_method, installed>>]),
                    ocr_available, ocr_method, installed)
    ELSE load_files(building_name, config, files, k + 1, m,
                    ocr_available, ocr_method, installed)

\* Variant of the end of load_building_floors that reports success only
\* when some floor yielded a label.
load_return_labelled(building_name, loaded, m) ==
    [raised |-> FALSE,
     current_config |-> <<loaded.config>>,
     store |-> loaded.store,
     floors |-> m.floors,
     all_rooms |-> m.all_rooms,
     all_entrances |-> m.all_entrances,
     current_building |-> <<building_name>>,
     result |-> \E k \in DOMAIN m.floors :
                   m.all_rooms[k].value # <<>> \/ m.all_entrances[k].value # <<>>]

\* BuildingManager.load_building_floors for an existing directory: the
\* manager's fields and the store after the call, and the value returned
load_return(building_name, loaded, m) ==
    [raised |-> FALSE,
     current_config |-> <<loaded.config>>,
     store |-> loaded.store,
     floors |-> m.floors,
     all_rooms |-> m.all_rooms,
     all_entrances |-> m.all_entrances,
     current_building |-> <<building_name>>,
     result |-> Len(m.floors) > 0]
\* load_config is called outside the try block: when it raises, the call
\* raises before anything of the manager is touched
load_with_config(building_name, listing, loaded, ocr_available, ocr_method, installed) ==
    IF loaded.raised THEN [raised |-> TRUE]
    ELSE load_return(building_name, loaded,
                     load_files(building_name, loaded.config, sort(pdf_files(listing)), 1,
                                [floors |-> <<>>, all_rooms |-> <<>>, all_entrances |-> <<>>],
                                ocr_available, ocr_method, installed))
load_building_floors(building_name, listing, st, ocr_available, ocr_method, installed) ==
    load_with_config(building_name, listing, load_config(st, building_name),
                     ocr_available, ocr_method, installed)

(***************************************************************************)
(* State.                                                                  *)
(***************************************************************************)
VARIABLES
    call,             \* one call of a PDFParser method: its receiver, its
                      \* arguments and, once it has returned, its result
    easyocr_installed,\* whether  import easyocr, cv2, numpy  succeeds here
    OCR_AVAILABLE,    \* the module global: <<>> (None), <<TRUE>>, <<FALSE>>
    OCR_METHOD,       \* the module global: <<>> (None) or <<"easyocr">>
    store,            \* the _configs directory: building name -> Optional record
    current_building, \* BuildingManager.current_building, Optional
    current_config,   \* BuildingManager.current_config, Optional
    floors,           \* BuildingManager.floors: dict floor name -> parser
    all_rooms,        \* BuildingManager.all_rooms: dict floor name -> rooms
    all_entrances,    \* BuildingManager.all_entrances: dict floor name -> entrances
    unreleased,       \* how many documents opened by load_building_floors are
                      \* still open while no parser of the floor map holds them
    op,               \* the last BuildingManager call: [name, args], and for
                      \* load_building_floors [name, args, listing, raised]:
                      \* listing is Optional of what os.listdir returns, none
                      \* when the directory does not exist
    ret,              \* what it returned, as an Optional
    asked             \* history: Optional of one search_room call made since the
                      \* last load, [query, ret, again]; again tells that the
                      \* latest search_room call asked that query once more

ocrVars == <<easyocr_installed, OCR_AVAILABLE, OCR_METHOD>>
indexVars == <<store, current_building, current_config, floors, all_rooms, all_entrances,
               unreleased>>
callVars == <<op, ret, asked>>
vars == <<call, easyocr_installed, OCR_AVAILABLE, OCR_METHOD, store, current_building,
          current_config, floors, all_rooms, all_entrances, unreleased, op, ret, asked>>

\* BuildingManager.__init__
InitManager ==
    /\ current_building = <<>>
    /\ current_config = <<>>
    /\ floors = <<>>
    /\ all_rooms = <<>>
    /\ all_entrances = <<>>
    /\ unreleased = 0
    /\ op = [name |-> "__init__", args |-> <<>>]
    /\ ret = <<>>
    /\ asked = <<>>
\* a fresh manager over a store without files
InitIndex ==
    /\ store = [b \in Buildings |-> <<>>]
    /\ InitManager

NoCall == [method |-> "none", returned |-> TRUE]

\* the globals as they can be: unset, or set by check_ocr_availability
OcrGlobals ==
    /\ easyocr_installed \in BOOLEAN
    /\ \/ OCR_AVAILABLE = <<>> /\ OCR_METHOD = <<>>
       \/ easyocr_installed /\ OCR_AVAILABLE = <<TRUE>> /\ OCR_METHOD = <<"easyocr">>
       \/ ~easyocr_installed /\ OCR_AVAILABLE = <<FALSE>> /\ OCR_METHOD = <<>>

(***************************************************************************)
(* The classifier as a system: a call is drawn, then it returns.           *)
(***************************************************************************)
RoomCall(c, u, t, f, n) ==
    [method |-> "is_room_text", config |-> c, use_ocr |-> u, text |-> t,
     font_size |-> f, normalized_font_size |-> n, returned |-> FALSE, raised |-> FALSE,
     result |-> FALSE]
\* a call p.matches(t) of a RoomPattern
MatchesCall(p, t) ==
    [method |-> "matches", pattern |-> p, text |-> t, returned |-> FALSE, raised |-> FALSE,
     result |-> FALSE]
EntranceCall(c, t) ==
    [method |-> "is_entrance_text", config |-> c, use_ocr |-> FALSE, text |-> t,
     font_size |-> 0, normalized_font_size |-> 0, returned |-> FALSE, raised |-> FALSE,
     result |-> FALSE]
\* use_ocr is read by the default logic only
InitClassify ==
    /\ \E t \in Texts :
          \/ \E c \in Configs, f \in FontSizes, n \in NormalizedSizes :
                 call = RoomCall(<<c>>, FALSE, t, f, n)
          \/ \E u \in BOOLEAN, f \in FontSizes, n \in NormalizedSizes :
                 call = RoomCall(<<>>, u, t, f, n)
          \/ \E c \in OptConfigs : call = EntranceCall(c, t)
          \/ \E p \in Patterns : call = MatchesCall(p, t)
    /\ easyocr_installed = FALSE
    /\ OCR_AVAILABLE = <<>>
    /\ OCR_METHOD = <<>>
    /\ InitIndex

\* the call is over: it returned result, or it raised (result is then not
\* a value of the call)
ReturnRoom ==
    /\ call.method = "is_room_text"
    /\ ~call.returned
    /\ call' = [call EXCEPT
                  !.returned = TRUE,
                  !.raised = is_room_text_raises(call.config, call.use_ocr, call.text,
                                                 call.font_size, call.normalized_font_size),
                  !.result = is_room_text(call.config, call.use_ocr, call.text,
                                          call.font_size, call.normalized_font_size)]
    /\ UNCHANGED <<ocrVars, indexVars, callVars>>

ReturnMatches ==
    /\ call.method = "matches"
    /\ ~call.returned
    /\ call' = [call EXCEPT
                  !.returned = TRUE,
                  !.raised = matches_raises(call.pattern, call.text),
                  !.result = matches(call.pattern, call.text)]
    /\ UNCHANGED <<ocrVars, indexVars, callVars>>

ReturnEntrance ==
    /\ call.method = "is_entrance_text"
    /\ ~call.returned
    /\ call' = [call EXCEPT
                  !.returned = TRUE,
                  !.result = is_entrance_text(call.config, call.text)]
    /\ UNCHANGED <<ocrVars, indexVars, callVars>>

NextClassify == ReturnRoom \/ ReturnEntrance \/ ReturnMatches

SpecClassify == InitClassify /\ [][NextClassify]_vars

(***************************************************************************)
(* One extraction pass as a system: a parser with a loaded document is     *)
(* drawn, extract_text_with_coordinates runs and returns.                  *)
(***************************************************************************)
ExtractCall(c, d) ==
    [method |-> "extract_text_with_coordinates", config |-> c, use_ocr |-> FALSE,
     doc |-> d, returned |-> FALSE, rooms |-> <<>>, entrances |-> <<>>]

InitExtract ==
    /\ call \in {ExtractCall(c, d) : c \in ExtractConfigs, d \in NativeDocs \cup ImageDocs}
    /\ OcrGlobals
    /\ InitIndex

ExtractReturns(r) ==
    call' = [call EXCEPT !.returned = TRUE,
                         !.use_ocr = r.use_ocr,
                         !.rooms = r.labels.rooms,
                         !.entrances = r.labels.entrances]
ReturnExtract ==
    /\ call.method = "extract_text_with_coordinates"
    /\ ~call.returned
    /\ ExtractReturns(extract_text_with_coordinates(call.config, call.use_ocr, call.doc,
                                                    OCR_AVAILABLE, OCR_METHOD,
                                                    easyocr_installed))
    /\ UNCHANGED <<ocrVars, indexVars, callVars>>

NextExtract == ReturnExtract

SpecExtract == InitExtract /\ [][NextExtract]_vars

(***************************************************************************)
(* The building index as a system.                                         *)
(***************************************************************************)
Init ==
    /\ call = NoCall
    /\ easyocr_installed \in BOOLEAN
    /\ OCR_AVAILABLE = <<>>
    /\ OCR_METHOD = <<>>
    /\ InitIndex

\* Variant of check_ocr_availability that probes on every call.
CheckOcrAvailabilityProbing ==
    /\ IF easyocr_installed
       THEN /\ OCR_AVAILABLE' = <<TRUE>>
            /\ OCR_METHOD' = <<"easyocr">>
            /\ ret' = <<TRUE>>
       ELSE /\ OCR_AVAILABLE' = <<FALSE>>
            /\ UNCHANGED OCR_METHOD
            /\ ret' = <<FALSE>>
    /\ op' = [name |-> "check_ocr_availability", args |-> <<>>]
    /\ UNCHANGED <<call, easyocr_installed, indexVars, asked>>

\* check_ocr_availability(), called by the viewer's OCR tools
CheckOcrAvailability ==
    /\ IF OCR_AVAILABLE # <<>>
       THEN /\ ret' = OCR_AVAILABLE
            /\ UNCHANGED <<OCR_AVAILABLE, OCR_METHOD>>
       ELSE IF easyocr_installed
       THEN /\ OCR_AVAILABLE' = <<TRUE>>
            /\ OCR_METHOD' = <<"easyocr">>
            /\ ret' = <<TRUE>>
       ELSE /\ OCR_AVAILABLE' = <<FALSE>>
            /\ UNCHANGED OCR_METHOD
            /\ ret' = <<FALSE>>
    /\ op' = [name |-> "check_ocr_availability", args |-> <<>>]
    /\ UNCHANGED <<call, easyocr_installed, indexVars, asked>>

\* load_building_floors(b) when the building directory does not exist
LoadMissing(b) ==
    /\ op' = [name |-> "load_building_floors", args |-> <<b>>, listing |-> <<>>,
              raised |-> FALSE]
    /\ ret' = <<FALSE>>
    /\ UNCHANGED <<call, ocrVars, indexVars, asked>>

\* the parsers of a floor map that hold an open document
OpenIn(parsers) == Cardinality({k \in DOMAIN parsers : parsers[k].value.doc # <<>>})

\* load_building_floors(b) when os.listdir returns listing and load_config
\* raises: the exception leaves the call
LoadRaises(b, listing) ==
    /\ op' = [name |-> "load_building_floors", args |-> <<b>>, listing |-> <<listing>>,
              raised |-> TRUE]
    /\ ret' = <<>>
    /\ UNCHANGED <<call, ocrVars, indexVars, asked>>
\* load_building_floors(b) when os.listdir returns listing and the call
\* returns.  self.floors.clear() drops the parsers of the earlier load
\* without closing them: each document they hold open is then finalized by
\* the runtime, or stays open (kept counts these).
LoadCompletes(b, listing, r) ==
    /\ current_config' = r.current_config
    /\ store' = r.store
    /\ floors' = r.floors
    /\ all_rooms' = r.all_rooms
    /\ all_entrances' = r.all_entrances
    /\ current_building' = r.current_building
    /\ \E kept \in 0 .. OpenIn(floors) :
           /\ unreleased + kept <= MaxUnreleased
           /\ unreleased' = unreleased + kept
    /\ op' = [name |-> "load_building_floors", args |-> <<b>>, listing |-> <<listing>>,
              raised |-> FALSE]
    /\ ret' = <<r.result>>
    /\ asked' = <<>>
    /\ UNCHANGED <<call, ocrVars>>
LoadReturns(b, listing, r) ==
    IF r.raised THEN LoadRaises(b, listing) ELSE LoadCompletes(b, listing, r)
Load(b, listing) ==
    LoadReturns(b, listing,
                load_building_floors(b, listing, store, OCR_AVAILABLE, OCR_METHOD,
                                     easyocr_installed))

\* PDFParser.close on every parser of a floor map
close_parsers(parsers) ==
    [k \in DOMAIN parsers |->
        [key |-> parsers[k].key, value |-> [parsers[k].value EXCEPT !.doc = <<>>]]]
\* close_all(): the parsers of the floor map close their documents and stay
\* in the map
CloseAll ==
    /\ floors' = close_parsers(floors)
    /\ op' = [name |-> "close_all", args |-> <<>>]
    /\ ret' = <<>>
    /\ UNCHANGED <<call, ocrVars, store, current_building, current_config, all_rooms,
                   all_entrances, unreleased, asked>>

\* Variant of search_room that takes the rooms it looks for out of the index.
SearchRoomConsuming(q) ==
    /\ op' = [name |-> "search_room", args |-> <<q>>]
    /\ ret' = search_room(all_rooms, floors, q)
    /\ all_rooms' = [k \in DOMAIN all_rooms |->
                        [key |-> all_rooms[k].key,
                         value |-> SelectSeq(all_rooms[k].value,
                                             LAMBDA r : r.id # strip(upper(q)))]]
    /\ \/ asked' = <<[query |-> q, ret |-> ret', again |-> FALSE]>>
       \/ /\ asked # <<>>
          /\ asked' = <<[asked[1] EXCEPT !.again = (q = asked[1].query)]>>
    /\ UNCHANGED <<call, ocrVars, store, current_building, current_config, floors,
                   all_entrances, unreleased>>

\* search_room(q).  The history keeps one earlier call: this call replaces
\* it, or leaves it and notes whether it asks the same query again.
SearchRoom(q) ==
    /\ op' = [name |-> "search_room", args |-> <<q>>]
    /\ ret' = search_room(all_rooms, floors, q)
    /\ \/ asked' = <<[query |-> q, ret |-> ret', again |-> FALSE]>>
       \/ /\ asked # <<>>
          /\ asked' = <<[asked[1] EXCEPT !.again = (q = asked[1].query)]>>
    /\ UNCHANGED <<call, ocrVars, indexVars>>

\* get_nearest_entrance(x, y)
GetNearestEntrance(x, y) ==
    /\ op' = [name |-> "get_nearest_entrance", args |-> <<x, y>>]
    /\ ret' = get_nearest_entrance(all_entrances, x, y)
    /\ UNCHANGED <<call, ocrVars, indexVars, asked>>

(***************************************************************************)
(* Loading and releasing: a fresh manager over a store in which a building *)
(* has no file yet or a file that is not UTF-8 text; then buildings are    *)
(* loaded and released.                                                    *)
(***************************************************************************)
InitLoad ==
    /\ call = NoCall
    /\ easyocr_installed \in BOOLEAN
    /\ OCR_AVAILABLE = <<>>
    /\ OCR_METHOD = <<>>
    /\ store \in {[b \in Buildings |-> <<>>],
                  [b \in Buildings |-> IF b = "B2" THEN <<Undecodable>> ELSE <<>>]}
    /\ InitManager

\* the directories loaded here: a ground plan, a scanned plan and a file
\* that does not open, under two names, in any order
LoadFiles ==
    {[name |-> n, doc |-> d] :
        n \in {<<"S","t","u","e",".","p","d","f">>, <<"1","s","a","l",".","p","d","f">>},
        d \in {DocGround, DocScan, DocBroken}}
LoadListings(b) ==
    {l \in SeqsUpTo(LoadFiles, IF b = "B1" THEN MaxFiles ELSE 1) :
        \A i, j \in DOMAIN l : i # j => l[i].name # l[j].name}

NextLoad ==
    \/ CheckOcrAvailability
    \/ \E b \in Buildings : LoadMissing(b)
    \/ \E b \in Buildings : \E listing \in LoadListings(b) : Load(b, listing)
    \/ CloseAll

SpecLoad == InitLoad /\ [][NextLoad]_vars


(***************************************************************************)
(* Loading directories whose listing holds plans, a hidden file named      *)
(* ".pdf" and a file that is not a plan, in any order.                     *)
(***************************************************************************)
ListedNames ==
    {<<"S","t","u","e",".","p","d","f">>, <<"1","s","a","l",".","p","d","f">>,
     <<".","p","d","f">>, <<".","p","d","f",".","p","d","f">>,
     <<"p","l","a","n",".","t","x","t">>}
ListedFiles == {[name |-> n, doc |-> d] : n \in ListedNames, d \in {DocGround, DocBroken}}
DirListings ==
    {l \in SeqsUpTo(ListedFiles, MaxFiles) :
        \A i, j \in DOMAIN l : i # j => l[i].name # l[j].name}
NextListing == \E b \in Buildings : \E listing \in DirListings : Load(b, listing)
SpecListing == InitLoad /\ [][NextListing]_vars

(***************************************************************************)
(* The OCR globals over the life of the process: the flag is checked,      *)
(* buildings are loaded and queried, and the recognizer package can be     *)
(* installed or removed while the process runs.                            *)
(***************************************************************************)
\* the environment: the package is installed or removed
InstallChanges ==
    /\ easyocr_installed' = ~easyocr_installed
    /\ UNCHANGED <<call, OCR_AVAILABLE, OCR_METHOD, indexVars, callVars>>
\* the directories loaded here: empty, a scanned plan, a ground plan
FlagListings ==
    {<<>>, <<[name |-> <<"S","t","u","e",".","p","d","f">>, doc |-> DocScan]>>,
     <<[name |-> <<"S","t","u","e",".","p","d","f">>, doc |-> DocGround]>>}
NextFlag ==
    \/ CheckOcrAvailability
    \/ InstallChanges
    \/ \E b \in Buildings : LoadMissing(b)
    \/ \E b \in Buildings : \E listing \in FlagListings : Load(b, listing)
    \/ \E q \in Queries : SearchRoom(q)
    \/ \E p \in Points : GetNearestEntrance(p[1], p[2])
SpecFlag == Init /\ [][NextFlag]_vars
\* the whole life of a manager: loading, releasing and queries
Next ==
    \/ NextLoad
    \/ \E q \in Queries : SearchRoom(q)
    \/ \E p \in Points : GetNearestEntrance(p[1], p[2])

Spec == Init /\ [][Next]_vars

(***************************************************************************)
(* The configuration store as a system: the _configs directory holds, for  *)
(* each building, no file, a file written by save_config, or a file edited *)
(* by hand; then configurations are saved and loaded.                      *)
(***************************************************************************)
\* the configurations the editor saves for building b
SavedConfigs(b) == {[c EXCEPT !.building_name = b] : c \in Configs}
\* what a file can hold at the start, besides nothing: text that is not
\* JSON, JSON that is not an object, an object without building_name, an
\* object with building_name only, a saved configuration, bytes that are
\* not UTF-8
StoredAtStart(b) ==
    {<<>>, <<Garbled>>, <<JsonOther>>, <<Undecodable>>,
     <<JsonObject([case_sensitive |-> TRUE])>>,
     <<JsonObject([building_name |-> b])>>,
     <<JsonObject(to_dict([TightCaseConfig EXCEPT !.building_name = b]))>>}

InitConfig ==
    /\ call = NoCall
    /\ easyocr_installed = FALSE
    /\ OCR_AVAILABLE = <<>>
    /\ OCR_METHOD = <<>>
    /\ \E f1 \in StoredAtStart("B1"), f2 \in StoredAtStart("B2") :
           store = [b \in Buildings |-> IF b = "B1" THEN f1 ELSE f2]
    /\ InitManager

\* config_manager.save_config(c)
SaveConfig(c) ==
    /\ store' = save_config(store, c)
    /\ op' = [name |-> "save_config", args |-> <<c>>]
    /\ ret' = <<>>
    /\ UNCHANGED <<call, ocrVars, current_building, current_config, floors, all_rooms,
                   all_entrances, unreleased, asked>>

\* config_manager.load_config(b).  The call record keeps what the file
\* held when the call began (found), and the configuration that the call
\* just before saved under this name, if it was a save_config (saved).
LoadConfigReturns(b, r) ==
    /\ store' = r.store
    /\ op' = [name |-> "load_config", args |-> <<b>>, found |-> store[b],
              saved |-> IF op.name = "save_config" /\ op.args[1].building_name = b
                        THEN op.args ELSE <<>>,
              raised |-> r.raised]
    /\ ret' = IF r.raised THEN <<>> ELSE <<r.config>>
    /\ UNCHANGED <<call, ocrVars, current_building, current_config, floors, all_rooms,
                   all_entrances, unreleased, asked>>
LoadConfig(b) == LoadConfigReturns(b, load_config(store, b))

NextConfig ==
    \/ \E b \in Buildings : \E c \in SavedConfigs(b) : SaveConfig(c)
    \/ \E b \in Buildings : LoadConfig(b)

SpecConfig == InitConfig /\ [][NextConfig]_vars

(***************************************************************************)
(* Queries on a loaded index: the manager is fresh, or one building has    *)
(* been loaded (before or after the OCR probe); then only search_room and  *)
(* get_nearest_entrance are called.                                        *)
(***************************************************************************)
HasLoaded(b, listing, r) ==
    /\ current_config = r.current_config
    /\ store = r.store
    /\ floors = r.floors
    /\ all_rooms = r.all_rooms
    /\ all_entrances = r.all_entrances
    /\ current_building = r.current_building
    /\ unreleased = 0
    /\ op = [name |-> "load_building_floors", args |-> <<b>>, listing |-> <<listing>>,
             raised |-> FALSE]
    /\ ret = <<r.result>>
    /\ asked = <<>>
Loaded(b, listing) ==
    HasLoaded(b, listing,
              load_building_floors(b, listing, [x \in Buildings |-> <<>>],
                                   OCR_AVAILABLE, OCR_METHOD, easyocr_installed))

InitQuery ==
    /\ call = NoCall
    /\ OcrGlobals
    /\ \/ InitIndex
       \/ \E b \in Buildings : \E listing \in Listings(b) : Loaded(b, listing)

NextQuery ==
    \/ \E q \in Queries : SearchRoom(q)
    \/ \E p \in Points : GetNearestEntrance(p[1], p[2])

SpecQuery == InitQuery /\ [][NextQuery]_vars


(***************************************************************************)
(* One extraction pass over a page with native text.                       *)
(***************************************************************************)
InitNative ==
    /\ call \in {ExtractCall(c, d) : c \in ExtractConfigs,
                                     d \in {n \in NativeDocs : has_text(n)}}
    /\ OcrGlobals
    /\ InitIndex
NextNative == ReturnExtract
SpecNative == InitNative /\ [][NextNative]_vars

(***************************************************************************)
(* One extraction pass over an image-only page after the availability      *)
(* check succeeded: every scale fails or returns up to MaxOcrPerScale      *)
(* results.                                                                *)
(***************************************************************************)
MaxOcrPerScale == 2
\* what the recognizer can return for the render at scales[k]: a room, an
\* entrance and a result below the confidence threshold
OcrFindingsAt(k) ==
    {OcrResult(OcrBoxAt(scales[k], 1, 1), <<"a","1","0","1">>, 90),
     OcrResult(OcrBoxAt(scales[k], 4, 1), <<"i","n","d","g","a","n","g">>, 80),
     OcrResult(OcrBoxAt(scales[k], 3, 1), <<"A","1","0","2">>, 29)}
\* the recognizer reports a region of the image once
Distinct(s) == \A i, j \in DOMAIN s : i # j => s[i] # s[j]
OcrRunsAt(k) ==
    {[ok |-> FALSE, results |-> <<>>]}
    \cup {[ok |-> TRUE, results |-> r] :
             r \in {s \in SeqsUpTo(OcrFindingsAt(k), MaxOcrPerScale) : Distinct(s)}}
OcrConfigs == {<<>>, <<DefaultConfig>>, <<OverflowConfig>>}
InitOcr ==
    /\ \E c \in OcrConfigs, ro \in BOOLEAN :
       \E o1 \in OcrRunsAt(1), o2 \in OcrRunsAt(2), o3 \in OcrRunsAt(3) :
          call = ExtractCall(c, Document(A4, <<>>, [reader_ok |-> ro,
                                                    scales |-> <<o1, o2, o3>>]))
    /\ easyocr_installed = TRUE
    /\ OCR_AVAILABLE = <<TRUE>>
    /\ OCR_METHOD = <<"easyocr">>
    /\ InitIndex
NextOcr == ReturnExtract
SpecOcr == InitOcr /\ [][NextOcr]_vars



(***************************************************************************)
(* _extract_with_easyocr step by step on an image-only A4 page: the        *)
(* recognizer is initialised, the scales are tried one turn of the loop at *)
(* a time, the best lists are returned.  call.k is the position in scales, *)
(* call.runs what the render and the recognizer did in the turns so far.   *)
(***************************************************************************)
EasyOcrCall(c) ==
    [method |-> "_extract_with_easyocr", config |-> c, use_ocr |-> FALSE,
     doc |-> Document(A4, <<>>, NoOcr), pc |-> "reader", reader_ok |-> TRUE, k |-> 1,
     tried |-> <<>>, runs |-> <<>>, best |-> NoLabels, best_count |-> 0,
     returned |-> FALSE, rooms |-> <<>>, entrances |-> <<>>]
InitScales ==
    /\ call \in {EasyOcrCall(c) : c \in OcrConfigs}
    /\ easyocr_installed = TRUE
    /\ OCR_AVAILABLE = <<TRUE>>
    /\ OCR_METHOD = <<"easyocr">>
    /\ InitIndex
\* easyocr.Reader(...): on failure the call returns [], []
StartReader ==
    /\ call.method = "_extract_with_easyocr"
    /\ call.pc = "reader"
    /\ \/ call' = [call EXCEPT !.pc = "scales"]
       \/ call' = [call EXCEPT !.pc = "done", !.reader_ok = FALSE, !.returned = TRUE]
    /\ UNCHANGED <<ocrVars, indexVars, callVars>>
\* Variant of a failed turn that leaves the loop.
scale_failed_leaving(c, run) ==
    [c EXCEPT !.k = Len(scales) + 1, !.tried = Append(@, scales[c.k]),
              !.runs = Append(@, run)]
\* a turn whose render or recognition failed: continue
scale_failed(c, run) ==
    [c EXCEPT !.k = @ + 1, !.tried = Append(@, scales[c.k]), !.runs = Append(@, run)]
\* a turn that classified its results: the lists replace the best ones when
\* they are more
scale_counted(c, run, found, total_found) ==
    [c EXCEPT !.k = @ + 1,
              !.tried = Append(@, scales[c.k]),
              !.runs = Append(@, run),
              !.best = IF total_found > c.best_count THEN found ELSE @,
              !.best_count = IF total_found > c.best_count THEN total_found ELSE @]
scale_classified(c, run, found) ==
    scale_counted(c, run, found, Len(found.rooms) + Len(found.entrances))
TryScale ==
    /\ call.method = "_extract_with_easyocr"
    /\ call.pc = "scales"
    /\ call.k <= Len(scales)
    /\ \E run \in OcrRunsAt(call.k) :
          call' = IF ~run.ok THEN scale_failed(call, run)
                  ELSE scale_classified(call, run,
                           ocr_results(call.config, call.use_ocr, call.doc, scales[call.k],
                                       run.results, 1, NoLabels))
    /\ UNCHANGED <<ocrVars, indexVars, callVars>>
\* rooms, entrances = best_results; return rooms, entrances
ReturnBest ==
    /\ call.method = "_extract_with_easyocr"
    /\ call.pc = "scales"
    /\ call.k > Len(scales)
    /\ call' = [call EXCEPT
                  !.pc = "done",
                  !.returned = TRUE,
                  !.rooms = call.best.rooms,
                  !.entrances = call.best.entrances,
                  !.use_ocr = easyocr_return(call.use_ocr, call.best).use_ocr]
    /\ UNCHANGED <<ocrVars, indexVars, callVars>>
NextScales == StartReader \/ TryScale \/ ReturnBest
\* the call runs on one thread that nothing suspends: a step that can be
\* taken is taken
SpecScales == InitScales /\ [][NextScales]_vars /\ WF_vars(NextScales)
(***************************************************************************)
(* One fragment on both paths: a page whose only span holds the text at a  *)
(* raw font size, and a scan on which the recognizer reads the same text   *)
(* in a box of that estimated size, under the same configuration.          *)
(***************************************************************************)
FragmentTexts ==
    {<<"i","n","d","g","a","n","g">>, <<"I","N","D","G","A","N","G">>,
     <<" ","a","1","0","1"," ">>, <<"A","1","0","1">>, <<"a",".","1">>,
     <<"1","2",".","5","m","2">>, <<"w","i","d","t","h">>, <<"A","-","0","1","/","2">>}
\* sizes the box of a recognized text can have at scale 2.0: multiples of
\* 0.05 pt
FragmentSizes == {100, 320, 340, 365, 4920}
OneSpanPage(text, size) == Document(A4, <<Span(text, size, BoxAt(A4, 1, 1))>>, NoOcr)
OneResult(text, size, confidence) ==
    <<OcrResult(Quad(0, 0, 400, (size * scales[1]) \div 100), text, confidence)>>
\* what a pass made of the fragment
KindOf(labels) ==
    IF labels.entrances # <<>> THEN "entrance"
    ELSE IF labels.rooms # <<>> THEN "room"
    ELSE "neither"
BothPathsCall(c, t, s) ==
    [method |-> "both_paths", config |-> c, use_ocr |-> FALSE, text |-> t, size |-> s,
     returned |-> FALSE, native |-> "neither", ocr |-> "neither"]
InitPaths ==
    /\ call \in {BothPathsCall(c, t, s) :
                    c \in ExtractConfigs, t \in FragmentTexts, s \in FragmentSizes}
    /\ easyocr_installed = TRUE
    /\ OCR_AVAILABLE = <<TRUE>>
    /\ OCR_METHOD = <<"easyocr">>
    /\ InitIndex
\* the span loop on the page and the result loop on the scan at scale 2.0
ReturnBothPaths ==
    /\ call.method = "both_paths"
    /\ ~call.returned
    /\ call' = [call EXCEPT
                  !.returned = TRUE,
                  !.native = KindOf(native_spans(call.config, call.use_ocr,
                                                 OneSpanPage(call.text, call.size), 1,
                                                 NoLabels)),
                  !.ocr = KindOf(ocr_results(call.config, call.use_ocr,
                                             OneSpanPage(call.text, call.size), scales[1],
                                             OneResult(call.text, call.size, 90), 1,
                                             NoLabels))]
    /\ UNCHANGED <<ocrVars, indexVars, callVars>>
NextPaths == ReturnBothPaths
SpecPaths == InitPaths /\ [][NextPaths]_vars
(***************************************************************************)
(* Properties of the classifier (SpecClassify).                            *)
(***************************************************************************)
RoomReturned == call.method = "is_room_text" /\ call.returned /\ ~call.raised
ConfiguredRoomReturned == RoomReturned /\ call.config # <<>>
EntranceReturned == call.method = "is_entrance_text" /\ call.returned

\* the parts of the configured decision, stated on the configuration itself
LengthWithin(c, text) == c.min_text_length <= Len(text) /\ Len(text) <= c.max_text_length
InSomeBand(c, size) ==
    \E k \in DOMAIN c.font_size_ranges :
        c.font_size_ranges[k].min_size <= size /\ size <= c.font_size_ranges[k].max_size
Excluded(c, text) == \E k \in DOMAIN c.exclude_patterns : matches(c.exclude_patterns[k], text)
RoomShaped(c, text) == \E k \in DOMAIN c.room_patterns : matches(c.room_patterns[k], text)

\* C2: with a configuration, a text that matches an enabled exclude pattern
\* is never room text, whatever its font size and whichever room patterns it
\* also matches.
ExcludeOverridesRoomPatterns ==
    (ConfiguredRoomReturned /\ Excluded(call.config[1], call.text)) => ~call.result

\* C2 happens: an excluded text of a room shape, in a band, within the
\* length bounds, was rejected.
ExcludedRoomShapeRejected ==
    /\ ConfiguredRoomReturned
    /\ Excluded(call.config[1], call.text)
    /\ RoomShaped(call.config[1], call.text)
    /\ InSomeBand(call.config[1], call.font_size)
    /\ LengthWithin(call.config[1], call.text)
    /\ ~call.result

\* C3: with a configuration, a text shorter than min_text_length or longer
\* than max_text_length is never room text; a text exactly as long as a
\* bound passes the length test, so the other tests alone decide it.
LengthBoundsInclusive ==
    ConfiguredRoomReturned =>
        LET c == call.config[1]
            n == Len(call.text)
        IN  /\ (n < c.min_text_length \/ n > c.max_text_length) => ~call.result
            /\ (n \in {c.min_text_length, c.max_text_length} /\ LengthWithin(c, call.text))
                   => (call.result <=> /\ InSomeBand(c, call.font_size)
                                       /\ ~Excluded(c, call.text)
                                       /\ RoomShaped(c, call.text))

\* C3 happens: a text exactly as long as max_text_length, longer than
\* min_text_length, was accepted.
TextAtMaxLengthAccepted ==
    /\ ConfiguredRoomReturned
    /\ Len(call.text) = call.config[1].max_text_length
    /\ Len(call.text) > call.config[1].min_text_length
    /\ call.result

\* the configuration with its bands in the opposite order
BandsReversed(c) ==
    [c EXCEPT !.font_size_ranges =
        [k \in DOMAIN c.font_size_ranges |->
            c.font_size_ranges[Len(c.font_size_ranges) + 1 - k]]]

\* C4: with a configuration, room text has its raw font size inside at least
\* one band, ends included; a size in any one band passes, in whatever order
\* the bands are listed; the normalized size never changes the result.
FontBandsDecideOnRawSize ==
    ConfiguredRoomReturned =>
        LET c == call.config[1]
        IN  /\ call.result => InSomeBand(c, call.font_size)
            /\ (/\ InSomeBand(c, call.font_size)
                /\ LengthWithin(c, call.text)
                /\ ~Excluded(c, call.text)
                /\ RoomShaped(c, call.text)) => call.result
            /\ call.result = is_room_text(<<BandsReversed(c)>>, call.use_ocr, call.text,
                                          call.font_size, call.normalized_font_size)
            /\ \A n \in NormalizedSizes \cup {0, call.font_size} :
                   call.result = is_room_text(call.config, call.use_ocr, call.text,
                                              call.font_size, n)

\* C4 happens: a text whose raw size is the upper end of the second listed
\* band was accepted, its normalized size lying in no band.
SizeAtBandEndAccepted ==
    /\ ConfiguredRoomReturned
    /\ call.result
    /\ Len(call.config[1].font_size_ranges) >= 2
    /\ call.font_size = call.config[1].font_size_ranges[2].max_size
    /\ ~InSomeBand(call.config[1], call.normalized_font_size)

\* C5: without a configuration (on a parser that has not fallen back to OCR)
\* is_room_text returns what it returns with the configuration built by
\* create_default_config.
DefaultLogicEqualsDefaultConfig ==
    (RoomReturned /\ call.config = <<>> /\ ~call.use_ocr) =>
        call.result = is_room_text(<<DefaultConfig>>, call.use_ocr, call.text,
                                   call.font_size, call.normalized_font_size)

\* c occurs in text at some position, compared letter by letter, case folded
\* unless case_sensitive
Fold(case_sensitive, ch) == IF case_sensitive THEN ch ELSE LowerChar[ch]
Occurs(case_sensitive, keyword, text) ==
    \E i \in 0 .. (Len(text) - Len(keyword)) :
        \A j \in 1 .. Len(keyword) :
            Fold(case_sensitive, text[i + j]) = Fold(case_sensitive, keyword[j])

\* C6: is_entrance_text is true exactly when a configured keyword occurs in
\* the text (case folded on both sides unless case_sensitive), or, without a
\* configuration, when the lower-cased text contains 'indgang'; nothing else
\* of the configuration takes part.
EntranceIsKeywordOccurrence ==
    EntranceReturned =>
        call.result =
            IF call.config # <<>>
            THEN \E k \in DOMAIN call.config[1].entrance_keywords :
                     Occurs(call.config[1].case_sensitive,
                            call.config[1].entrance_keywords[k], call.text)
            ELSE Occurs(FALSE, KwIndgang, call.text)

\* C6 happens: under a case-sensitive configuration a text holding a keyword
\* only in the other case was not an entrance text.
KeywordInOtherCaseRejected ==
    /\ EntranceReturned
    /\ call.config # <<>>
    /\ call.config[1].case_sensitive
    /\ \E k \in DOMAIN call.config[1].entrance_keywords :
           Occurs(FALSE, call.config[1].entrance_keywords[k], call.text)
    /\ ~call.result

MatchesReturned == call.method = "matches" /\ call.returned
\* the pattern string is not a regular expression the compiler takes
Malformed(p) == re_compile(p.pattern).t \in {"error", "overflow"}

\* C17: RoomPattern.matches returns false for every text when the pattern
\* is disabled, and returns false without raising when the pattern string
\* is not a valid regular expression; a malformed pattern of the
\* configuration never makes is_room_text raise.
MalformedPatternIsHarmless ==
    /\ MatchesReturned =>
           /\ ~call.raised
           /\ (~call.pattern.enabled \/ Malformed(call.pattern)) => ~call.result
    /\ (call.method = "is_room_text" /\ call.returned) => ~call.raised

\* p.matches(text) if the regular expression were matched with or without
\* regard to case as the flag tells
MatchesWithCase(p, text, case_sensitive) ==
    p.enabled /\ re_match(re_compile(p.pattern), text, ~case_sensitive)

\* C18: room and exclude patterns are matched from the start of the text,
\* without regard to case when case_sensitive is false and with regard to
\* case when it is true: the configured decision is the one these matches
\* give.
PatternsFollowCaseFlag ==
    ConfiguredRoomReturned =>
        LET c == call.config[1]
        IN  call.result =
               (/\ LengthWithin(c, call.text)
                /\ InSomeBand(c, call.font_size)
                /\ ~ \E k \in DOMAIN c.exclude_patterns :
                       MatchesWithCase(c.exclude_patterns[k], call.text, c.case_sensitive)
                /\ \E k \in DOMAIN c.room_patterns :
                       MatchesWithCase(c.room_patterns[k], call.text, c.case_sensitive))

(***************************************************************************)
(* Properties of one extraction pass (SpecExtract).                        *)
(***************************************************************************)
ExtractReturned == call.method = "extract_text_with_coordinates" /\ call.returned

\* label l was made from span sp of the page
LabelOfSpan(l, sp, rect) ==
    /\ l.text = strip(sp.text)
    /\ l.x = Frac(sp.bbox[1] + sp.bbox[3], 2 * rect.width)
    /\ l.y = Frac(sp.bbox[2] + sp.bbox[4], 2 * rect.height)
\* label l was made from result r of the recognizer on the render at scale
LabelOfOcrResult(l, r, rect, scale) ==
    /\ l.text = strip(upper(r.text))
    /\ l.x = Frac(CornerSum(r.bbox, 1), rect.width * scale)
    /\ l.y = Frac(CornerSum(r.bbox, 2), rect.height * scale)
    /\ "confidence" \in DOMAIN l
    /\ l.confidence = r.confidence

\* C1: in one extraction pass, on the native path and on the OCR path, no
\* label of the rooms list was made from a fragment whose trimmed text is an
\* entrance text under the parser's configuration.
EntranceFragmentNeverRoom ==
    ExtractReturned =>
        /\ \A k \in DOMAIN call.doc.spans :
               is_entrance_text(call.config, strip(call.doc.spans[k].text))
                   => ~ \E i \in DOMAIN call.rooms :
                           LabelOfSpan(call.rooms[i], call.doc.spans[k], call.doc.rect)
        /\ \A s \in DOMAIN scales :
               \A k \in DOMAIN call.doc.ocr.scales[s].results :
                   is_entrance_text(call.config, strip(call.doc.ocr.scales[s].results[k].text))
                       => ~ \E i \in DOMAIN call.rooms :
                               LabelOfOcrResult(call.rooms[i],
                                                call.doc.ocr.scales[s].results[k],
                                                call.doc.rect, scales[s])

\* the call returned these labels
ReturnedLabels(labels) == call.rooms = labels.rooms /\ call.entrances = labels.entrances

\* C15: when the first page has no non-blank native span, the call returns
\* what the OCR fallback returns whenever the recognizer can be imported in
\* this runtime, whether or not check_ocr_availability was called before,
\* and two empty lists when it cannot be imported.
OcrFallbackWheneverInstalled ==
    (ExtractReturned /\ ~has_text(call.doc)) =>
        IF easyocr_installed
        THEN ReturnedLabels(extract_with_easyocr(call.config, FALSE, call.doc, TRUE).labels)
        ELSE ReturnedLabels(NoLabels)

\* classifying some span of the page raises an error
PageRaises ==
    \E k \in DOMAIN call.doc.spans :
        /\ strip(call.doc.spans[k].text) # <<>>
        /\ ~is_entrance_text(call.config, strip(call.doc.spans[k].text))
        /\ is_room_text_raises(call.config, FALSE, strip(call.doc.spans[k].text),
                               call.doc.spans[k].size, call.doc.spans[k].size)

\* C16: when an error is raised while the spans of the page are processed,
\* also after some spans were classified, the call returns two empty lists:
\* none of the labels collected before the error.
ErrorYieldsNoLabels ==
    (ExtractReturned /\ has_text(call.doc) /\ PageRaises) => ReturnedLabels(NoLabels)

(***************************************************************************)
(* Properties of the queries on a loaded index (SpecQuery).                *)
(***************************************************************************)
SearchReturned == op.name = "search_room"
NearestReturned == op.name = "get_nearest_entrance"

\* the places <<floor index, room index>> of the index holding id
PlacesOf(id) ==
    UNION {{<<k, i>> : i \in {j \in DOMAIN all_rooms[k].value :
                                  all_rooms[k].value[j].id = id}} :
           k \in DOMAIN all_rooms}
Earlier(p, q) == p[1] < q[1] \/ (p[1] = q[1] /\ p[2] <= q[2])

\* C7: search_room upper-cases and trims the query and returns the first
\* room whose id equals it, floors taken in insertion order and rooms in
\* extraction order, with its floor name and that floor's parser; it
\* returns none when no room has that id.
SearchReturnsFirstMatch ==
    SearchReturned =>
        LET places == PlacesOf(strip(upper(op.args[1])))
        IN  IF places = {} THEN ret = <<>>
            ELSE \E p \in places :
                    /\ \A q \in places : Earlier(p, q)
                    /\ ret = <<[room |-> all_rooms[p[1]].value[p[2]],
                                floor |-> all_rooms[p[1]].key,
                                parser |-> DictGet(floors, all_rooms[p[1]].key)]>>

\* C7 happens: a query written in lower case between blanks found a room
\* that two floors hold, on the earlier floor.
SearchFoundOnEarlierFloor ==
    /\ SearchReturned
    /\ op.args[1] # strip(upper(op.args[1]))
    /\ ret # <<>>
    /\ \E p, q \in PlacesOf(strip(upper(op.args[1]))) :
           /\ p[1] < q[1]
           /\ ret[1].floor = all_rooms[p[1]].key

\* C8: search_room and get_nearest_entrance change nothing of the manager
\* (floors, rooms, entrances, current building and configuration, the
\* store, the OCR globals), and a search_room call with the query of an
\* earlier call since the load returns what that call returned.
QueriesLeaveIndexUnchanged ==
    [][(op'.name \in {"search_room", "get_nearest_entrance"}) =>
           /\ UNCHANGED <<indexVars, ocrVars>>
           /\ (/\ op'.name = "search_room"
               /\ asked # <<>>
               /\ op'.args[1] = asked[1].query) => ret' = asked[1].ret]_vars

\* C8 happens: a query was asked again after other calls and found the
\* same room.
SearchRepeated ==
    /\ SearchReturned
    /\ asked # <<>>
    /\ asked[1].again
    /\ op.args[1] = asked[1].query
    /\ ret # <<>>
    /\ ret = asked[1].ret

\* the floors whose name marks a ground floor, and the entrances of floors
GroundFloors == {k \in DOMAIN all_entrances : is_ground_floor(all_entrances[k].key)}
EntrancesOf(K) ==
    UNION {{all_entrances[k].value[i] : i \in DOMAIN all_entrances[k].value} : k \in K}
Nearer(e, f) == FracLess(distance2(e, op.args[1], op.args[2]),
                         distance2(f, op.args[1], op.args[2]))

EntrancePlaces ==
    UNION {{<<k, i>> : i \in DOMAIN all_entrances[k].value} : k \in DOMAIN all_entrances}

\* C10: get_nearest_entrance returns none when the index has no entrance on
\* any floor, and when the index has exactly one entrance in total it
\* returns that entrance, whichever floor it is on.
OnlyEntranceIsReturned ==
    NearestReturned =>
        /\ EntrancePlaces = {} => ret = <<>>
        /\ \A p \in EntrancePlaces :
               EntrancePlaces = {p} => ret = <<all_entrances[p[1]].value[p[2]]>>


\* the places the candidates of get_nearest_entrance come from, and the
\* entrance at a place
CandidatePlaces ==
    {p \in EntrancePlaces : GroundFloors = {} \/ p[1] \in GroundFloors}
EntranceAt(p) == all_entrances[p[1]].value[p[2]]

\* C11: get_nearest_entrance returns a candidate at minimal Euclidean
\* distance from the point, and among the candidates at that distance the
\* first one met, floors taken in insertion order and entrances in
\* extraction order.
NearestIsFirstMinimal ==
    NearestReturned =>
        IF CandidatePlaces = {} THEN ret = <<>>
        ELSE \E p \in CandidatePlaces :
                /\ ret = <<EntranceAt(p)>>
                /\ \A q \in CandidatePlaces :
                       /\ ~Nearer(EntranceAt(q), EntranceAt(p))
                       /\ ~Nearer(EntranceAt(p), EntranceAt(q)) => Earlier(p, q)

\* C11 happens: two different entrances are candidates at the same minimal
\* distance, on different floors, and the one of the earlier floor came back.
TieWonByEarlierEntrance ==
    /\ NearestReturned
    /\ ret # <<>>
    /\ \E p, q \in CandidatePlaces :
           /\ p[1] < q[1]
           /\ EntranceAt(p) # EntranceAt(q)
           /\ ret[1] = EntranceAt(p)
           /\ ~Nearer(EntranceAt(q), EntranceAt(p))
           /\ ~Nearer(EntranceAt(p), EntranceAt(q))

(***************************************************************************)
(* Properties of loading and releasing (SpecLoad).                         *)
(***************************************************************************)
LoadCalled == op.name = "load_building_floors"
LoadCameBack == LoadCalled /\ ~op.raised
\* the floor names of the documents of the directory that can be opened
OpenableNames ==
    IF op.listing = <<>> THEN {}
    ELSE {splitext0(op.listing[1][k].name) :
             k \in {j \in DOMAIN op.listing[1] :
                       /\ endswith(op.listing[1][j].name, DotPdf)
                       /\ op.listing[1][j].doc.openable}}
KeySet(d) == {d[k].key : k \in DOMAIN d}

\* C12: load_building_floors returns false exactly when the directory is
\* missing or none of its documents could be opened, and true when at least
\* one opened; the floors of a loaded directory are exactly its documents
\* that opened, each with a list of rooms and a list of entrances, empty
\* lists included.
LoadSucceedsIffADocumentOpened ==
    LoadCameBack =>
        /\ ret = <<OpenableNames # {}>>
        /\ op.listing # <<>> =>
              /\ KeySet(floors) = OpenableNames
              /\ DictKeys(all_rooms) = DictKeys(floors)
              /\ DictKeys(all_entrances) = DictKeys(floors)

\* C12 happens: a directory with a file that does not open and a plan that
\* yields no label was loaded, with result true and a floor of two empty
\* lists.
LoadedFloorWithoutLabels ==
    /\ LoadCameBack
    /\ ret = <<TRUE>>
    /\ op.listing # <<>>
    /\ \E j \in DOMAIN op.listing[1] : ~op.listing[1][j].doc.openable
    /\ \E k \in DOMAIN floors :
           /\ floors[k].value.doc # <<>>
           /\ all_rooms[k].value = <<>>
           /\ all_entrances[k].value = <<>>

\* C13: after load_building_floors(B) has returned, with either result,
\* the floor, room and entrance maps hold only entries made from the
\* documents of B's directory by that call: nothing of a building loaded
\* earlier stays in them.
LoadLeavesOnlyThisBuilding ==
    LoadCameBack =>
        /\ KeySet(floors) \subseteq OpenableNames
        /\ KeySet(all_rooms) \subseteq OpenableNames
        /\ KeySet(all_entrances) \subseteq OpenableNames
        /\ \A k \in DOMAIN floors : floors[k].value.pdf_path[1] = op.args[1]

\* C14: after any sequence of loads and close_all calls no document is open
\* that the floor map does not hold, and after close_all the parsers of the
\* floor map hold no open document either.
NoDocumentOpenOutsideFloorMap ==
    /\ unreleased = 0
    /\ op.name = "close_all" => OpenIn(floors) = 0

(***************************************************************************)
(* Properties of the configuration store (SpecConfig).                     *)
(***************************************************************************)
LoadConfigCalled == op.name = "load_config"

Unusable(file) ==
    \/ file.form # "json"
    \/ ~file.object
    \/ "building_name" \notin DOMAIN file.data
\* the next load_config call would give r
NextLoadGives(r) == ~r.raised /\ r.config = ret[1] /\ r.store = store

\* C20: load_config(name) does not raise when the file is missing or cannot
\* be turned into a BuildingConfig: it returns the built-in default for
\* name and writes it to the store, so that the next load_config(name)
\* returns an equal configuration read from the store.
LoadConfigRecovers ==
    (LoadConfigCalled /\ (op.found = <<>> \/ Unusable(op.found[1]))) =>
        /\ ~op.raised
        /\ ret = <<create_default_config(op.args[1])>>
        /\ store[op.args[1]] = <<JsonObject(to_dict(ret[1]))>>
        /\ NextLoadGives(load_config(store, op.args[1]))


(***************************************************************************)
(* Properties of the OCR fallback of one extraction pass (SpecExtract).    *)
(***************************************************************************)
\* the call went through _extract_with_easyocr and the recognizer started
EasyOcrRan ==
    /\ ExtractReturned
    /\ ~has_text(call.doc)
    /\ OCR_AVAILABLE = <<TRUE>>
    /\ OCR_METHOD = <<"easyocr">>
    /\ easyocr_installed
    /\ call.doc.ocr.reader_ok
\* the lists one scale collects on its own; a scale that fails collects none
ScaleLabels ==
    [k \in DOMAIN scales |->
        IF call.doc.ocr.scales[k].ok
        THEN ocr_results(call.config, FALSE, call.doc, scales[k],
                         call.doc.ocr.scales[k].results, 1, NoLabels)
        ELSE NoLabels]
CountOf(labels) == Len(labels.rooms) + Len(labels.entrances)
\* scale k has the highest count and no scale tried before it reaches it
FirstBest(found, k) ==
    /\ \A j \in DOMAIN found : CountOf(found[j]) <= CountOf(found[k])
    /\ \A j \in DOMAIN found : j < k => CountOf(found[j]) < CountOf(found[k])
ReturnsFirstBest(found) ==
    IF \A k \in DOMAIN found : CountOf(found[k]) = 0
    THEN ReturnedLabels(NoLabels)
    ELSE \E k \in DOMAIN found : FirstBest(found, k) /\ ReturnedLabels(found[k])

\* C21: the OCR fallback returns the rooms and the entrances of exactly one
\* scale, the one with the highest rooms+entrances count, and among scales
\* with the same highest count the one tried first in the order 2.0, 3.0,
\* 1.5; it returns two empty lists when every scale classifies nothing.
OcrReturnsFirstBestScale == EasyOcrRan => ReturnsFirstBest(ScaleLabels)
\* two scales reach the same highest count with different lists
TwoScalesTie(found) ==
    \E j, k \in DOMAIN found :
        /\ j < k
        /\ FirstBest(found, j)
        /\ CountOf(found[k]) = CountOf(found[j])
        /\ found[k] # found[j]
        /\ ReturnedLabels(found[j])
EarlierScaleWonTie == EasyOcrRan /\ TwoScalesTie(ScaleLabels)

(***************************************************************************)
(* Further properties of the queries (SpecQuery).                          *)
(***************************************************************************)
\* no load_building_floors call has got past its directory check
NothingLoaded == current_building = <<>> /\ floors = <<>>
\* the step is a search_room call with an empty or whitespace-only query
BlankSearchStep == op'.name = "search_room" /\ strip(op'.args[1]) = <<>>
\* the step is a query on a manager that has loaded nothing
UnloadedQueryStep ==
    /\ NothingLoaded
    /\ op'.name \in {"search_room", "get_nearest_entrance"}

\* C22: search_room with an empty or whitespace-only query, and search_room
\* or get_nearest_entrance before any building has been loaded, return
\* none and leave the index, the configuration, the store and the OCR
\* globals as they were.
BlankOrUnloadedQueryReturnsNone ==
    [][(BlankSearchStep \/ UnloadedQueryStep) =>
          /\ ret' = <<>>
          /\ UNCHANGED <<indexVars, store, ocrVars, call>>]_vars
\* an empty and a whitespace-only query came back without a room from an
\* index that holds rooms
BlankQueryOnLoadedIndex ==
    /\ op.name = "search_room"
    /\ strip(op.args[1]) = <<>>
    /\ ret = <<>>
    /\ \E k \in DOMAIN all_rooms : all_rooms[k].value # <<>>
EmptyQueryOnLoadedIndex == BlankQueryOnLoadedIndex /\ op.args[1] = <<>>

(***************************************************************************)
(* Properties of the native-text path (SpecNative).                        *)
(***************************************************************************)
NativeReturned == ExtractReturned /\ has_text(call.doc)
Increasing(f) == \A i, j \in DOMAIN f : i < j => f[i] < f[j]
\* from[i] is the non-blank span label labels[i] was made from
MadeFrom(labels, from, doc) ==
    \A i \in DOMAIN labels :
        /\ strip(doc.spans[from[i]].text) # <<>>
        /\ LabelOfSpan(labels[i], doc.spans[from[i]], doc.rect)
        /\ labels[i].font_size = doc.spans[from[i]].size
\* both lists follow the spans in traversal order and no span is used twice
InSpanOrder(rooms, entrances, doc) ==
    \E fr \in [DOMAIN rooms -> DOMAIN doc.spans] :
    \E fe \in [DOMAIN entrances -> DOMAIN doc.spans] :
        /\ Increasing(fr)
        /\ Increasing(fe)
        /\ MadeFrom(rooms, fr, doc)
        /\ MadeFrom(entrances, fe, doc)
        /\ \A i \in DOMAIN fr, j \in DOMAIN fe : fr[i] # fe[j]
NonBlankSpans(doc) == {k \in DOMAIN doc.spans : strip(doc.spans[k].text) # <<>>}

\* C23: on the native-text path the rooms list and the entrances list are
\* each in the traversal order of the spans they were made from, every
\* non-blank span gives at most one label in total and a blank span none,
\* so there are never more labels than non-blank spans.
LabelsFollowSpanOrder ==
    NativeReturned =>
        /\ InSpanOrder(call.rooms, call.entrances, call.doc)
        /\ Len(call.rooms) + Len(call.entrances) <= Cardinality(NonBlankSpans(call.doc))
\* two rooms came back in span order although their ids are in descending
\* order
RoomsReturnedUnsorted ==
    /\ NativeReturned
    /\ Len(call.rooms) = 2
    /\ StrLess(call.rooms[2].id, call.rooms[1].id)

(***************************************************************************)
(* Properties of the floor map after a directory was listed (SpecListing). *)
(***************************************************************************)
\* the call listed the directory and came back
ListedAndCameBack == LoadCameBack /\ op.listing # <<>>
\* the names of the documents of the listing that could be opened
OpenedDocuments ==
    {op.listing[1][k].name :
        k \in {j \in DOMAIN op.listing[1] :
                  /\ endswith(op.listing[1][j].name, DotPdf)
                  /\ op.listing[1][j].doc.openable}}
\* names is the ascending enumeration of the set of file names S
AscendingOver(names, S) ==
    /\ {names[k] : k \in DOMAIN names} = S
    /\ \A i, j \in DOMAIN names : i < j => StrLess(names[i], names[j])
\* the floor map has one entry per name, in this order, keyed by the stem
KeyedInOrder(parsers, names) ==
    DictKeys(parsers) = [k \in DOMAIN names |-> splitext0(names[k])]

\* C24: after load_building_floors(name) the floor map has one entry per
\* document of the directory that could be opened, keyed by the file name
\* without its extension, and it iterates in the ascending order of the
\* file names, whatever order the listing had.
FloorMapFollowsSortedNames ==
    ListedAndCameBack =>
        \E names \in [1 .. Cardinality(OpenedDocuments) -> OpenedDocuments] :
            AscendingOver(names, OpenedDocuments) /\ KeyedInOrder(floors, names)

(***************************************************************************)
(* Properties of the two extraction paths on one fragment (SpecPaths).     *)
(***************************************************************************)
BothPathsReturned == call.method = "both_paths" /\ call.returned

\* C25: under the same configuration the OCR path makes of a recognized
\* text with estimated size s what the native path makes of a span with
\* the same trimmed text and raw font size s: an entrance, a room or
\* neither on both paths, whether case_sensitive is set or not.
PathsClassifyAlike == BothPathsReturned => call.ocr = call.native

(***************************************************************************)
(* Properties of the stored room labels (SpecQuery).                       *)
(***************************************************************************)
StoredRooms == UNION {{all_rooms[k].value[i] : i \in DOMAIN all_rooms[k].value} :
                         k \in DOMAIN all_rooms}
WellFormedId(r) == r.id = upper(r.text) /\ r.text # <<>> /\ strip(r.text) = r.text
\* q is r's text up to letter case and surrounding whitespace
SameUpToCaseAndSpace(q, r) == upper(strip(q)) = upper(r.text)

\* C26: every room label in the index, from the native or from the OCR
\* path, has the upper-cased form of its text as id and a non-empty text
\* without surrounding whitespace; so search_room(q), for q equal to the
\* text of a stored room r up to letter case and surrounding whitespace,
\* returns a room whose id is r.id.
StoredRoomIsFoundByItsText ==
    /\ \A r \in StoredRooms : WellFormedId(r)
    /\ op.name = "search_room" =>
          \A r \in StoredRooms :
              SameUpToCaseAndSpace(op.args[1], r) => ret # <<>> /\ ret[1].room.id = r.id
\* a query in another case and with spaces around it found a room, in an
\* index that also holds a room read by the recognizer
RoomFoundInOtherCase ==
    /\ op.name = "search_room"
    /\ ret # <<>>
    /\ op.args[1] # ret[1].room.text
    /\ strip(op.args[1]) # op.args[1]
    /\ strip(op.args[1]) # ret[1].room.id
    /\ \E r \in StoredRooms : "confidence" \in DOMAIN r

(***************************************************************************)
(* Properties of the scale loop step by step (SpecScales).                 *)
(***************************************************************************)
EasyOcrDone == call.method = "_extract_with_easyocr" /\ call.pc = "done"
\* the scales tried so far are the first ones of 2.0, 3.0, 1.5, each once
TriedInOrder ==
    /\ Len(call.tried) <= Len(scales)
    /\ call.tried = SubSeq(scales, 1, Len(call.tried))
\* at the return every scale had its turn and the best lists come back, or
\* the recognizer did not start and the lists are empty
TriedAllOrNoReader ==
    EasyOcrDone =>
        IF call.reader_ok
        THEN call.tried = scales /\ ReturnedLabels(call.best)
        ELSE call.tried = <<>> /\ ReturnedLabels(NoLabels)
\* a turn that fails goes on to the next scale with the best lists kept
FailedTurnKeepsBest ==
    (Len(call'.runs) = Len(call.runs) + 1 /\ ~call'.runs[Len(call'.runs)].ok) =>
        /\ call'.pc = "scales"
        /\ call'.k = call.k + 1
        /\ call'.best = call.best
        /\ call'.best_count = call.best_count

\* C27: the multi-scale loop always terminates; the scales 2.0, 3.0, 1.5
\* are tried at most once each, in that order; a scale whose render or
\* recognition fails is skipped, the remaining scales still get their turn
\* and the best lists so far are kept; when the recognizer cannot be
\* initialised the call returns two empty lists.
ScaleLoopTerminates ==
    /\ <>EasyOcrDone
    /\ [](TriedInOrder /\ TriedAllOrNoReader)
    /\ [][FailedTurnKeepsBest]_vars
\* the first scale found labels, the second failed, the third was still
\* tried, and the labels of the first came back
BestKeptAcrossFailedScale ==
    /\ EasyOcrDone
    /\ call.reader_ok
    /\ call.tried = scales
    /\ call.runs[1].ok
    /\ ~call.runs[2].ok
    /\ call.runs[3].ok
    /\ call.rooms # <<>>

(***************************************************************************)
(* Properties of the whole life of a manager (Spec).                       *)
(***************************************************************************)
\* C28: after any sequence of load_building_floors, search_room,
\* get_nearest_entrance and close_all calls the floor-to-document map, the
\* floor-to-rooms map and the floor-to-entrances map hold the same floor
\* names in the same order, so that the floor of a room search_room found
\* is a key of the floor-to-document map.
MapsShareFloorNames ==
    /\ DictKeys(all_rooms) = DictKeys(floors)
    /\ DictKeys(all_entrances) = DictKeys(floors)
    /\ (op.name = "search_room" /\ ret # <<>>) =>
          /\ DictHas(floors, ret[1].floor)
          /\ ret[1].parser = DictGet(floors, ret[1].floor)
\* a room was found on a floor whose plan yields no entrance, after
\* close_all
RoomFoundAfterCloseAll ==
    /\ op.name = "search_room"
    /\ ret # <<>>
    /\ ret[1].parser.doc = <<>>
    /\ \E k \in DOMAIN all_entrances : all_entrances[k].value = <<>>

(***************************************************************************)
(* Properties of the current building (SpecLoad).                          *)
(***************************************************************************)
\* the step is a load_building_floors call that returns false
LoadFailsStep == op'.name = "load_building_floors" /\ ~op'.raised /\ ret' = <<FALSE>>
\* the step is a load_building_floors(name) call that returns true
LoadSucceedsStep(name) ==
    op'.name = "load_building_floors" /\ ~op'.raised /\ ret' = <<TRUE>> /\ op'.args = <<name>>
\* every floor of the index is a plan of the current building
IndexIsOfCurrentBuilding ==
    \A k \in DOMAIN floors : current_building = <<floors[k].value.pdf_path[1]>>

\* C29: current_building changes to name only through a
\* load_building_floors(name) call that returns true; a load that returns
\* false leaves current_building and current_config as they were; so
\* current_building names the building whose floors are in the index.
CurrentBuildingFollowsSuccessfulLoads ==
    /\ [][/\ LoadFailsStep => UNCHANGED <<current_building, current_config>>
          /\ current_building' # current_building =>
                \E name \in Buildings :
                    current_building' = <<name>> /\ LoadSucceedsStep(name)]_vars
    /\ []IndexIsOfCurrentBuilding

(***************************************************************************)
(* Properties of the OCR availability flag (SpecFlag).                     *)
(***************************************************************************)
Determined == OCR_AVAILABLE \in {<<TRUE>>, <<FALSE>>}
\* a step writes the flag only in a check_ocr_availability call that finds
\* it undetermined, and that call returns what it wrote
FlagWrittenByFirstCheck ==
    OCR_AVAILABLE' # OCR_AVAILABLE =>
        /\ OCR_AVAILABLE = <<>>
        /\ op'.name = "check_ocr_availability"
        /\ Determined'
        /\ ret' = OCR_AVAILABLE'
\* a determined flag stays, and a check_ocr_availability call returns it
FlagKept ==
    Determined =>
        /\ UNCHANGED <<OCR_AVAILABLE, OCR_METHOD>>
        /\ op'.name = "check_ocr_availability" => ret' = OCR_AVAILABLE

\* C30: the OCR availability flag starts undetermined, the first
\* check_ocr_availability call fixes it to available or unavailable, and
\* it never changes afterwards: a later call returns the same value
\* without probing again, and extraction, loads and queries do not write
\* it.
OcrFlagFixedByFirstCheck ==
    /\ OCR_AVAILABLE = <<>>
    /\ [](op.name = "check_ocr_availability" => Determined)
    /\ [][FlagWrittenByFirstCheck /\ FlagKept]_vars
\* check_ocr_availability returned true after a scanned plan was read
\* through the recognizer and the package was removed
LaterCheckReturnsFirstValue ==
    /\ op.name = "check_ocr_availability"
    /\ ret = <<TRUE>>
    /\ ~easyocr_installed
    /\ \E k \in DOMAIN all_rooms : \E i \in DOMAIN all_rooms[k].value :
           "confidence" \in DOMAIN all_rooms[k].value[i]
=============================================================================
